---- MODULE Spec2Model ----
(***************************************************************************)
(* Honeypot API: the session lifecycle manager (src/session_manager.py),  *)
(* the scam detector (src/scam_detector.py), the intelligence extractor    *)
(* (src/intelligence_extractor.py) and the request handler and             *)
(* report-readiness policy of src/main.py.                                 *)
(*                                                                         *)
(* Spec         every SessionManager method is one step (each method body  *)
(*              runs under SessionManager._lock).                          *)
(* SpecThreads  the same methods executed by concurrent callers, one       *)
(*              store or load per step, with the lock modelled.            *)
(* SpecDetect   detect_scam and get_scam_type applied to a request.        *)
(* SpecHandler  honeypot_endpoint, one step per request handled.           *)
(* SpecExtract  extract_all applied to a text.                             *)
(* SpecReport   the handler, the forced report and the report tasks.       *)
(***************************************************************************)
EXTENDS Integers, Sequences, FiniteSets, TLC

VARIABLES
    sessions,   \* SessionManager._sessions : session_id -> SessionState
    heap,       \* the agent_notes list objects, by reference (oid -> list)
    now,        \* datetime.utcnow(), in seconds
    lastOp,     \* the last SessionManager call made and what it found
    recorded,   \* per session: the confidences recorded since it was created
    mergedIn,   \* per session and field: the values merged since it was created
    created,    \* per session id: the SessionState objects constructed for it
    lock,       \* SessionManager._lock : "free" or the thread holding it
    thr,        \* per thread: the call it executes, its position and locals
    snap,       \* per thread: the dict its last get_session_data returned
    lin,        \* the store had each call run alone, in lock-acquisition order
    request,    \* the message and history handed to the detector
    verdict,    \* what the detector returned for it
    tasks       \* per session id: the send_callback_to_guvi tasks queued and
                \* those waiting in client.post, and what became of the others

vars ==
    <<sessions, heap, now, lastOp, recorded, mergedIn, created, lock, thr, snap, lin,
      request, verdict, tasks>>

----------------------------------------------------------------------------
(* Bounds of the model *)

MaxMessages == 3
MaxTicks == 2
MaxForced == 1

(* Program constants *)

MIN_MESSAGES_FOR_CALLBACK == 3
MAX_MESSAGES_PER_SESSION == 20
SESSION_TIMEOUT_SECONDS == 3600

(* The clock advances in steps of the session timeout: a session idle for  *)
(* one step is exactly at the timeout, one idle for two is past it.        *)
TickStep == SESSION_TIMEOUT_SECONDS * 1

----------------------------------------------------------------------------
(* Inputs *)

SessionIds == {"s1", "s2"}
\* the ids clients open a session for under Spec; calls naming any other id
\* address a session that is not in the store
OpenIds == {"s1"}
Threads == {"t1", "t2"}
NoValue == "None"

IntelKeys ==
    {"bankAccounts", "upiIds", "phishingLinks", "phoneNumbers", "suspiciousKeywords"}

\* Message(sender, text, timestamp): timestamp is optional
MessageInputs ==
    { [sender |-> "scammer", text |-> "pay now", timestamp |-> "2024-01-01T10:00:00"] }

\* (is_scam, confidence in hundredths, scam_type)
VerdictInputs ==
    { [is_scam |-> FALSE, confidence |-> 30, scam_type |-> "Unknown"],
      [is_scam |-> TRUE, confidence |-> 30, scam_type |-> ""],
      [is_scam |-> TRUE, confidence |-> 80, scam_type |-> "Lottery/Prize Scam"] }

\* dictionaries of the shape IntelligenceExtractor.extract_all returns
EmptyIntel ==
    [bankAccounts |-> <<>>, upiIds |-> <<>>, phishingLinks |-> <<>>,
     phoneNumbers |-> <<>>, suspiciousKeywords |-> <<>>]

IntelInputs ==
    { EmptyIntel,
      [EmptyIntel EXCEPT !.phoneNumbers = <<"+919876543210">>,
                         !.suspiciousKeywords = <<"urgent">>],
      [EmptyIntel EXCEPT !.upiIds = <<"a@ybl">>,
                         !.phishingLinks = <<"http://bit.ly/x">>] }

NoteInputs == {"", "n1"}

----------------------------------------------------------------------------
(* Data classes *)

Range(s) == {s[i] : i \in DOMAIN s}

Max(a, b) == IF a >= b THEN a ELSE b

\* datetime.isoformat(): a text that is not the instant itself
isoformat(t) == <<"iso", t>>

\* SessionState(session_id=...): the dataclass defaults
SessionState(sid, notesRef, t) ==
    [session_id |-> sid,
     scam_detected |-> FALSE,
     scam_confidence |-> 0,
     scam_type |-> "",
     messages |-> <<>>,
     intelligence |-> EmptyIntel,
     agent_notes |-> notesRef,
     last_activity |-> t,
     callback_sent |-> FALSE]

total_messages(s) == Len(s.messages)

is_expired_atTimeout(s, t) == t - s.last_activity >= SESSION_TIMEOUT_SECONDS

is_expired(s, t) == t - s.last_activity > SESSION_TIMEOUT_SECONDS

should_send_callback(s) ==
    /\ s.scam_detected
    /\ ~s.callback_sent
    /\ total_messages(s) >= MIN_MESSAGES_FOR_CALLBACK

has_good_intel(s) ==
    \/ Len(s.intelligence.bankAccounts) > 0
    \/ Len(s.intelligence.upiIds) > 0
    \/ Len(s.intelligence.phishingLinks) > 0

should_end_session_withoutIntel(s) ==
    IF total_messages(s) >= MAX_MESSAGES_PER_SESSION THEN TRUE
    ELSE IF total_messages(s) >= 8 THEN TRUE
    ELSE FALSE

should_end_session(s) ==
    IF total_messages(s) >= MAX_MESSAGES_PER_SESSION THEN TRUE
    ELSE IF has_good_intel(s) /\ total_messages(s) >= 8 THEN TRUE
    ELSE FALSE

\* main.py: the policy the request handler applies
should_trigger_callback_noIntel(s) ==
    IF s.callback_sent THEN FALSE
    ELSE IF ~s.scam_detected THEN FALSE
    ELSE IF total_messages(s) >= MIN_MESSAGES_FOR_CALLBACK THEN TRUE
    ELSE FALSE

should_trigger_callback_ignoresSent(s) ==
    IF ~s.scam_detected THEN FALSE
    ELSE IF has_good_intel(s) THEN TRUE
    ELSE IF total_messages(s) >= MIN_MESSAGES_FOR_CALLBACK THEN TRUE
    ELSE FALSE

should_trigger_callback(s) ==
    IF s.callback_sent THEN FALSE
    ELSE IF ~s.scam_detected THEN FALSE
    ELSE IF has_good_intel(s) THEN TRUE
    ELSE IF total_messages(s) >= MIN_MESSAGES_FOR_CALLBACK THEN TRUE
    ELSE FALSE

merge_values_appendAll(current, values) == current \o values

\* ExtractedIntelligence.merge, one key: append each value not yet present
RECURSIVE merge_values(_, _)
merge_values(current, values) ==
    IF values = <<>> THEN current
    ELSE merge_values(
             IF Head(values) \in Range(current) THEN current
             ELSE Append(current, Head(values)),
             Tail(values))

\* ExtractedIntelligence.merge: keys that are no attribute are skipped
merge(intel, other_intel) ==
    [k \in IntelKeys |->
        IF k \in DOMAIN other_intel THEN merge_values(intel[k], other_intel[k])
        ELSE intel[k]]

----------------------------------------------------------------------------
(* Texts.  A text is the sequence of its words: w is a maximal run of word *)
(* characters [A-Za-z0-9_], s the characters between it and the next word  *)
(* (or the end).  A regular expression of the source is matched on words   *)
(* and separators, which is what \b, literal punctuation and \s amount to. *)

Word(w, s) == [w |-> w, s |-> s]

\* str.lower() / re.IGNORECASE, on the words that are written with capitals
LowerCase ==
    [w \in {"URGENT", "Won", "KYC", "Claim", "You"} |->
        CASE w = "URGENT" -> "urgent"
          [] w = "You" -> "you"
          [] w = "Won" -> "won"
          [] w = "KYC" -> "kyc"
          [] w = "Claim" -> "claim"]

lower_word(w) == IF w \in DOMAIN LowerCase THEN LowerCase[w] ELSE w

lower(text) == [i \in DOMAIN text |-> Word(lower_word(text[i].w), text[i].s)]

Whitespace == {" ", "  "}

\* " ".join(texts)
RECURSIVE join(_)
join(texts) ==
    IF texts = <<>> THEN <<>>
    ELSE IF Len(texts) = 1 THEN Head(texts)
    ELSE LET h == Head(texts) IN
         (IF h = <<>> THEN <<>>
          ELSE [h EXCEPT ![Len(h)].s = @ \o " "]) \o join(Tail(texts))

\* the regular expressions of SCAM_PATTERNS, by shape
Re(kind, a, b, fused) == [kind |-> kind, a |-> a, b |-> b, fused |-> fused]
\* \bw\b, with alternatives
W(a) == Re("word", a, {}, {})
\* \ba b\b
Phrase(a, b) == Re("phrase", a, b, {})
\* \ba\s*b\b: apart by white space, or written as one word
Spaced(a, b, fused) == Re("spaced", a, b, fused)
\* \ba\b.*\bb\b
Gap(a, b) == Re("gap", a, b, {})
\* \ba\.b\b
Dotted(a, b) == Re("dotted", a, b, {})
\* https?://
Scheme == Re("scheme", {"http", "https"}, {}, {})

\* re.search(pattern, text)
re_search(re, text) ==
    CASE re.kind = "word" -> \E i \in DOMAIN text : text[i].w \in re.a
      [] re.kind = "phrase" ->
            \E i \in DOMAIN text :
                /\ i < Len(text)
                /\ text[i].w \in re.a /\ text[i].s = " " /\ text[i + 1].w \in re.b
      [] re.kind = "spaced" ->
            \/ \E i \in DOMAIN text : text[i].w \in re.fused
            \/ \E i \in DOMAIN text :
                  /\ i < Len(text)
                  /\ text[i].w \in re.a
                  /\ text[i].s \in Whitespace
                  /\ text[i + 1].w \in re.b
      [] re.kind = "gap" ->
            \E i, j \in DOMAIN text : i < j /\ text[i].w \in re.a /\ text[j].w \in re.b
      [] re.kind = "dotted" ->
            \E i \in DOMAIN text :
                /\ i < Len(text)
                /\ text[i].w \in re.a /\ text[i].s = "." /\ text[i + 1].w \in re.b
      [] re.kind = "scheme" ->
            \E i \in DOMAIN text : text[i].w \in re.a /\ text[i].s = "://"

----------------------------------------------------------------------------
(* IntelligenceExtractor (src/intelligence_extractor.py).  A match is the  *)
(* sequence of the words and separators it spans.                          *)

\* the words of the inputs that are runs of digits, with their first digit;
\* none of them holds a phone number inside a longer run
LeadDigit ==
    [w \in {"9876543210", "123456789012"} |-> IF w = "9876543210" THEN 9 ELSE 1]

IsDigits(w) == w \in DOMAIN LeadDigit

\* the words of the inputs of the shape [A-Z]{4}0[A-Z0-9]{6}
IfscCodes == {"SBIN0001234"}

\* every other word of the inputs is a run of letters
IsLetters(w) == ~IsDigits(w) /\ w \notin IfscCodes

\* the separators of the inputs: what precedes their first white space, and
\* whether they hold white space
SepHead ==
    [s \in {"", " ", "  ", ".", "-", "@", "://", "/", "! ", ". ", ", "} |->
        CASE s \in {"", " ", "  "} -> ""
          [] s = "! " -> "!"
          [] s = ". " -> "."
          [] s = ", " -> ","
          [] OTHER -> s]

HasSpace(s) == s \in {" ", "  ", "! ", ". ", ", "}

\* the list without its repeated values: `if v not in xs: xs.append(v)`
unique(xs) == merge_values(<<>>, xs)

\* sep.join(strings)
RECURSIVE str_join(_, _)
str_join(sep, strings) ==
    IF strings = <<>> THEN ""
    ELSE IF Len(strings) = 1 THEN Head(strings)
    ELSE Head(strings) \o sep \o str_join(sep, Tail(strings))

\* the string a match is
string_of(m) == str_join("", m)

strings_of(ms) == [k \in DOMAIN ms |-> string_of(ms[k])]

\* str.lower() of a match
lower_match(m) == [k \in DOMAIN m |-> lower_word(m[k])]

\* str.endswith, on a match
endswith(m, suffix) ==
    /\ Len(m) >= Len(suffix)
    /\ SubSeq(m, Len(m) - Len(suffix) + 1, Len(m)) = suffix

\* `safe in url`: the pieces of safe in a row somewhere in the match
contains(m, part) ==
    \E k \in 1..Len(m) :
        k + Len(part) - 1 <= Len(m) /\ SubSeq(m, k, k + Len(part) - 1) = part

UPI_PATTERNS ==
    <<"ybl", "paytm", "okaxis", "okicici", "oksbi", "okhdfcbank", "upi", "apl",
      "axl", "ibl", "sbi", "hdfc", "icici", "axis", "kotak", "phonepe", "gpay",
      "freecharge", "amazonpay", "[a-zA-Z]{2,}">>

\* the longest [a-zA-Z0-9._-]+ that ends with word i
RECURSIVE local_part(_, _)
local_part(text, i) ==
    IF i > 1 /\ text[i - 1].s \in {".", "-"}
    THEN local_part(text, i - 1) \o <<text[i - 1].s, text[i].w>>
    ELSE <<text[i].w>>

\* what follows the @ under one pattern: the provider name, or two letters
\* or more
upi_domain(pattern, w) ==
    IF pattern = "[a-zA-Z]{2,}" THEN IsLetters(w) /\ Len(w) >= 2
    ELSE lower_word(w) = pattern

\* the words of the text that an @ follows, in their order
RECURSIVE words_before_at(_, _)
words_before_at(text, i) ==
    IF i >= Len(text) THEN <<>>
    ELSE (IF text[i].s = "@" THEN <<i>> ELSE <<>>) \o words_before_at(text, i + 1)

\* pattern.findall(text): a match ends at the word after an @, so the @s
\* are tried in their order, from the k-th on
RECURSIVE upi_findall(_, _, _, _)
upi_findall(pattern, text, ats, k) ==
    IF k > Len(ats) THEN <<>>
    ELSE (IF upi_domain(pattern, text[ats[k] + 1].w)
          THEN <<local_part(text, ats[k]) \o <<"@", text[ats[k] + 1].w>>>>
          ELSE <<>>)
         \o upi_findall(pattern, text, ats, k + 1)

\* the matches of the patterns from pattern p on, pattern by pattern
RECURSIVE upi_matches(_, _, _)
upi_matches(text, ats, p) ==
    IF p > Len(UPI_PATTERNS) THEN <<>>
    ELSE upi_findall(UPI_PATTERNS[p], text, ats, 1) \o upi_matches(text, ats, p + 1)

IsNoEmail(m) == ~endswith(m, <<".", "com">>) /\ "@" \in Range(m)

extract_upi_ids(text) ==
    LET matches == SelectSeq(upi_matches(text, words_before_at(text, 1), 1), IsNoEmail)
    IN  unique([k \in DOMAIN matches |-> string_of(lower_match(matches[k]))])

\* PHONE_PATTERNS on one word: a run of ten digits that begins with 6..9 (a
\* 91 or +91 written before it, apart by a blank or hyphen, yields the same
\* normalized number)
phone_of(w) ==
    IF IsDigits(w) /\ Len(w) = 10 /\ LeadDigit[w] \in 6..9
    THEN <<"+91" \o w>> ELSE <<>>

RECURSIVE phone_matches(_, _)
phone_matches(text, i) ==
    IF i > Len(text) THEN <<>>
    ELSE phone_of(text[i].w) \o phone_matches(text, i + 1)

extract_phone_numbers(text) == unique(phone_matches(text, 1))

\* \b(\d{9,18})\b, then \b([A-Z]{4}0[A-Z0-9]{6})\b
RECURSIVE account_matches(_, _, _)
account_matches(text, ifsc, i) ==
    IF i > Len(text) THEN <<>>
    ELSE (IF \/ ~ifsc /\ IsDigits(text[i].w)
                       /\ 9 <= Len(text[i].w) /\ Len(text[i].w) <= 18
             \/ ifsc /\ text[i].w \in IfscCodes
          THEN <<text[i].w>> ELSE <<>>)
         \o account_matches(text, ifsc, i + 1)

extract_bank_accounts(text) ==
    unique(account_matches(text, FALSE, 1) \o account_matches(text, TRUE, 1))

URL_PATTERNS ==
    <<[kind |-> "scheme", a |-> {"http", "https"}, b |-> ""],
      [kind |-> "www", a |-> {"www"}, b |-> ""],
      [kind |-> "short", a |-> {"bit"}, b |-> "ly"],
      [kind |-> "short", a |-> {"tinyurl"}, b |-> "com"],
      [kind |-> "short", a |-> {"goo"}, b |-> "gl"],
      [kind |-> "short", a |-> {"t"}, b |-> "co"]>>

\* the last word of [^\s<>"{}|\\^`\[\]]+ begun at word i: the first that
\* white space follows
RECURSIVE url_end(_, _)
url_end(text, i) ==
    IF i >= Len(text) \/ HasSpace(text[i].s) THEN i ELSE url_end(text, i + 1)

\* the words and separators from word i to word j, with what precedes the
\* white space after word j
RECURSIVE url_pieces(_, _, _)
url_pieces(text, i, j) ==
    IF i = j
    THEN <<text[i].w>> \o (IF SepHead[text[i].s] = "" THEN <<>>
                          ELSE <<SepHead[text[i].s]>>)
    ELSE <<text[i].w, text[i].s>> \o url_pieces(text, i + 1, j)

\* whether the pattern matches at word i
url_at(pattern, text, i) ==
    /\ lower_word(text[i].w) \in pattern.a
    /\ CASE pattern.kind = "scheme" -> text[i].s = "://" /\ i < Len(text)
         [] pattern.kind = "www" -> text[i].s = "." /\ i < Len(text)
         [] pattern.kind = "short" ->
                /\ i + 2 <= Len(text)
                /\ text[i].s = "."
                /\ lower_word(text[i + 1].w) = pattern.b
                /\ text[i + 1].s = "/"

\* the last word of the match of the pattern at word i
url_last(pattern, text, i) ==
    IF pattern.kind = "short" THEN i + 2 ELSE url_end(text, i + 1)

\* pattern.findall(text), from word i on: the search resumes after a match
RECURSIVE url_findall(_, _, _)
url_findall(pattern, text, i) ==
    IF i > Len(text) THEN <<>>
    ELSE IF url_at(pattern, text, i)
    THEN <<IF pattern.kind = "short"
           THEN <<text[i].w, ".", text[i + 1].w, "/", text[i + 2].w>>
           ELSE url_pieces(text, i, url_last(pattern, text, i))>>
         \o url_findall(pattern, text, url_last(pattern, text, i) + 1)
    ELSE url_findall(pattern, text, i + 1)

RECURSIVE url_matches(_, _)
url_matches(text, p) ==
    IF p > Len(URL_PATTERNS) THEN <<>>
    ELSE url_findall(URL_PATTERNS[p], text, 1) \o url_matches(text, p + 1)

SAFE_DOMAINS ==
    {<<"google", ".", "com">>, <<"facebook", ".", "com">>,
     <<"youtube", ".", "com">>, <<"twitter", ".", "com">>,
     <<"linkedin", ".", "com">>, <<"instagram", ".", "com">>,
     <<"microsoft", ".", "com">>, <<"apple", ".", "com">>,
     <<"amazon", ".", "in">>, <<"flipkart", ".", "com">>,
     <<"paytm", ".", "com">>, <<"phonepe", ".", "com">>}

is_safe(url) == \E safe \in SAFE_DOMAINS : contains(lower_match(url), safe)

IsNotSafe(url) == ~is_safe(url)

extract_urls(text) == unique(strings_of(SelectSeq(url_matches(text, 1), IsNotSafe)))

SUSPICIOUS_KEYWORDS ==
    <<<<"urgent">>, <<"immediately">>, <<"now">>, <<"today">>, <<"expire">>,
      <<"last", "chance">>, <<"limited", "time">>, <<"act", "fast">>,
      <<"hurry">>, <<"quick">>, <<"asap">>,
      <<"blocked">>, <<"suspended">>, <<"deactivated">>, <<"terminated">>,
      <<"freeze">>, <<"legal", "action">>, <<"police">>, <<"arrest">>,
      <<"fine">>, <<"penalty">>,
      <<"won">>, <<"winner">>, <<"lottery">>, <<"prize">>, <<"reward">>,
      <<"cashback">>, <<"congratulations">>, <<"selected">>, <<"lucky">>,
      <<"claim">>, <<"free">>,
      <<"verify">>, <<"verification">>, <<"confirm">>, <<"update">>, <<"kyc">>,
      <<"otp">>, <<"password">>, <<"pin">>, <<"cvv">>,
      <<"transfer">>, <<"pay">>, <<"send", "money">>, <<"upi">>, <<"bank">>,
      <<"account">>,
      <<"click", "here">>, <<"click", "link">>,
      <<"rbi">>, <<"government">>, <<"police">>, <<"income", "tax">>,
      <<"customs">>, <<"bank", "manager">>, <<"customer", "care">>,
      <<"support", "team">>, <<"official">>>>

\* the words of the inputs that hold a keyword word inside them, at their
\* end, at their start
Holds ==
    [inside |-> {<<"paytm", "pay">>, <<"contact", "act">>},
     atEnd |-> {<<"contact", "act">>},
     atStart |-> {<<"paytm", "pay">>}]

\* `keyword in text_lower`
keyword_in(keyword, text) ==
    IF Len(keyword) = 1
    THEN \E i \in DOMAIN text :
            \/ text[i].w = keyword[1]
            \/ <<text[i].w, keyword[1]>> \in Holds.inside
    ELSE \E i \in DOMAIN text :
            /\ i < Len(text)
            /\ text[i].w = keyword[1] \/ <<text[i].w, keyword[1]>> \in Holds.atEnd
            /\ text[i].s = " "
            /\ text[i + 1].w = keyword[2]
                  \/ <<text[i + 1].w, keyword[2]>> \in Holds.atStart

\* the keywords found from keyword k on, in the order of the list
RECURSIVE keywords_found(_, _)
keywords_found(text, k) ==
    IF k > Len(SUSPICIOUS_KEYWORDS) THEN <<>>
    ELSE (IF keyword_in(SUSPICIOUS_KEYWORDS[k], text)
          THEN <<SUSPICIOUS_KEYWORDS[k]>> ELSE <<>>)
         \o keywords_found(text, k + 1)

find_suspicious_keywords(text) ==
    LET text_lower == lower(text)
        found == keywords_found(text_lower, 1)
    IN  unique([k \in DOMAIN found |-> str_join(" ", found[k])])

extract_all(text) ==
    [bankAccounts |-> extract_bank_accounts(text),
     upiIds |-> extract_upi_ids(text),
     phishingLinks |-> extract_urls(text),
     phoneNumbers |-> extract_phone_numbers(text),
     suspiciousKeywords |-> find_suspicious_keywords(text)]

----------------------------------------------------------------------------
(* ScamDetector (src/scam_detector.py) *)

\* SCAM_PATTERNS, in the order of the dictionary
Categories ==
    <<"urgency", "threat", "sensitive_request", "lottery", "financial_bait",
      "impersonation", "link_request", "kyc">>

SCAM_PATTERNS ==
    [urgency |->
        [patterns |->
            <<W({"immediately"}), W({"urgent"}), W({"today"}),
              W({"now"}), W({"asap"}), W({"quickly"}),
              W({"expire", "expiring", "expired"}), Phrase({"last"}, {"chance"}),
              Phrase({"limited"}, {"time"}), Phrase({"act"}, {"fast"}), W({"hurry"})>>,
         weight |-> 2,
         description |-> "Urgency tactics"],
     threat |->
        [patterns |->
            <<W({"block", "blocked"}), W({"suspend", "suspended"}),
              W({"deactivate", "deactivated"}), W({"terminate", "terminated"}),
              W({"freeze", "freezing"}), Phrase({"legal"}, {"action"}),
              W({"police"}), W({"arrest"}), W({"fine"}),
              W({"penalty"})>>,
         weight |-> 3,
         description |-> "Threat-based manipulation"],
     sensitive_request |->
        [patterns |->
            <<W({"otp"}), W({"pin"}), W({"password"}),
              W({"cvv"}), Phrase({"card"}, {"number"}), W({"expiry"}),
              Phrase({"bank"}, {"account"}), Phrase({"account"}, {"number"}),
              W({"upi", "upiid", "upipin"}), W({"aadhaar"}), W({"pan"}),
              Gap({"share"}, {"details", "info"})>>,
         weight |-> 4,
         description |-> "Request for sensitive information"],
     lottery |->
        [patterns |->
            <<W({"won"}), W({"winner"}), W({"lottery"}),
              W({"prize"}), W({"claim"}), W({"congratulation"}),
              W({"lucky"}), W({"selected"}), Phrase({"cash"}, {"prize"}),
              W({"reward"})>>,
         weight |-> 4,
         description |-> "Lottery/Prize scam"],
     financial_bait |->
        [patterns |->
            <<W({"refund"}), W({"cashback"}), W({"reward"}),
              W({"free"}), W({"bonus"}), Phrase({"loan"}, {"approved"}),
              Gap({"credit"}, {"approved"}), Gap({"money"}, {"transfer"})>>,
         weight |-> 3,
         description |-> "Financial bait"],
     impersonation |->
        [patterns |->
            <<Spaced({"bank"}, {"manager", "officer"}, {"bankmanager", "bankofficer"}),
              W({"rbi"}),
              W({"government"}), Spaced({"income"}, {"tax"}, {"incometax"}),
              Spaced({"customer"}, {"care", "support"},
                     {"customercare", "customersupport"}),
              W({"official"}),
              W({"authorized"}), W({"verified"})>>,
         weight |-> 3,
         description |-> "Authority impersonation"],
     link_request |->
        [patterns |->
            <<Spaced({"click"}, {"here", "link", "button"},
                     {"clickhere", "clicklink", "clickbutton"}),
              W({"visit"}),
              Spaced({"open"}, {"link", "url"}, {"openlink", "openurl"}),
              W({"download"}),
              Scheme, Dotted({"bit"}, {"ly"}), W({"tinyurl"})>>,
         weight |-> 2,
         description |-> "Suspicious link sharing"],
     kyc |->
        [patterns |->
            <<W({"kyc"}), W({"verify", "verification"}),
              Gap({"update"}, {"details", "info", "account"}),
              W({"mandatory"}), W({"compulsory"})>>,
         weight |-> 3,
         description |-> "KYC/Verification scam"]]

\* minimum score to consider as scam
SCAM_THRESHOLD == 5

(* Scores are counted in halves of a point (a category in the history adds *)
(* weight * 0.5) and confidences in 240ths, so that score / 24 and the     *)
(* boosts 0.15, 0.1 and 0.2 are whole numbers and no rounding is involved. *)

\* 1.0 as a confidence
ONE == 240
\* intel_boost += 0.15 / 0.1 / 0.2
UPI_BOOST == 36
PHONE_BOOST == 24
LINK_BOOST == 48
\* the confidence of `confidence >= 0.5`
HALF == 120

Min(a, b) == IF a <= b THEN a ELSE b

\* sum(d['weight'] for d in SCAM_PATTERNS.values()), from category c on
RECURSIVE sum_of_weights(_)
sum_of_weights(c) ==
    IF c > Len(Categories) THEN 0
    ELSE SCAM_PATTERNS[Categories[c]].weight + sum_of_weights(c + 1)

max_possible_score == sum_of_weights(1)

patterns_score_everyTrigger(data, text, p) ==
    data.weight
      * Cardinality({q \in p..Len(data.patterns) : re_search(data.patterns[q], text)})

\* `for pattern in data['patterns']`, from pattern p on: the weight at the
\* first pattern that matches, then break
RECURSIVE patterns_score(_, _, _)
patterns_score(data, text, p) ==
    IF p > Len(data.patterns) THEN 0
    ELSE IF re_search(data.patterns[p], text) THEN data.weight
    ELSE patterns_score(data, text, p + 1)

\* the loop over the categories on the current message, from category c on:
\* total_score (in halves) and detected_types
RECURSIVE scan_message(_, _, _)
scan_message(text, c, acc) ==
    IF c > Len(Categories) THEN acc
    ELSE LET category == Categories[c]
             added == patterns_score(SCAM_PATTERNS[category], text, 1)
         IN  scan_message(text, c + 1,
                 IF added = 0 THEN acc
                 ELSE [total_score2 |-> acc.total_score2 + 2 * added,
                       detected_types |->
                           IF category \in Range(acc.detected_types)
                           THEN acc.detected_types
                           ELSE Append(acc.detected_types, category)])

\* the loop over the categories on the history text, from category c on:
\* weight * 0.5 for each category that matches
RECURSIVE scan_history(_, _)
scan_history(history_text, c) ==
    IF c > Len(Categories) THEN 0
    ELSE patterns_score(SCAM_PATTERNS[Categories[c]], history_text, 1)
         + scan_history(history_text, c + 1)

IsScammer(msg) == msg.sender = "scammer"

\* [msg.get("text", "") for msg in conversation_history]
texts_of(conversation_history) ==
    [k \in DOMAIN conversation_history |-> conversation_history[k].text]

\* " ".join(the texts of the scammer's messages).lower()
history_text_of(conversation_history) ==
    lower(join(texts_of(SelectSeq(conversation_history, IsScammer))))

is_scam_of_scoreOnly(total_score2, confidence) ==
    total_score2 >= 2 * SCAM_THRESHOLD

\* is_scam = total_score >= cls.SCAM_THRESHOLD or confidence >= 0.5
is_scam_of(total_score2, confidence) ==
    total_score2 >= 2 * SCAM_THRESHOLD \/ confidence >= HALF

\* the notes, before "; ".join
notes_of(detected_types, intel) ==
    (IF detected_types # <<>>
     THEN <<"Detected: "
              \o str_join(", ", [k \in DOMAIN detected_types |->
                                    SCAM_PATTERNS[detected_types[k]].description])>>
     ELSE <<>>)
    \o (IF intel.upiIds # <<>>
        THEN <<"UPI IDs found: " \o str_join(", ", intel.upiIds)>> ELSE <<>>)
    \o (IF intel.phishingLinks # <<>> THEN <<"Suspicious URLs detected">> ELSE <<>>)
    \o (IF intel.phoneNumbers # <<>>
        THEN <<"Phone numbers found: " \o str_join(", ", intel.phoneNumbers)>>
        ELSE <<>>)

\* lines 149-185: the boost, the confidence, the verdict and the notes, from
\* total_score (in halves), detected_types and the extracted intelligence
detect_scam_return(total_score2, detected_types, intel) ==
    LET intel_boost ==
            (IF intel.upiIds # <<>> THEN UPI_BOOST ELSE 0)
            + (IF intel.phoneNumbers # <<>> THEN PHONE_BOOST ELSE 0)
            + (IF intel.phishingLinks # <<>> THEN LINK_BOOST ELSE 0)
        base_confidence ==
            Min((total_score2 * ONE) \div (2 * max_possible_score), ONE)
        confidence == Min(ONE, base_confidence + intel_boost)
        notes == notes_of(detected_types, intel)
    IN  [is_scam |-> is_scam_of(total_score2, confidence),
         confidence |-> confidence,
         detected_types |-> detected_types,
         scam_notes |-> IF notes # <<>> THEN str_join("; ", notes)
                        ELSE "No specific scam indicators",
         total_score2 |-> total_score2]

\* lines 131-147: the score of the history added, and the text the
\* intelligence is extracted from
detect_scam_history(message, conversation_history, current) ==
    IF conversation_history # <<>>
    THEN detect_scam_return(
             current.total_score2
               + scan_history(history_text_of(conversation_history), 1),
             current.detected_types,
             extract_all(join(<<message, join(texts_of(conversation_history))>>)))
    ELSE detect_scam_return(current.total_score2, current.detected_types,
                            extract_all(message))

\* the tuple detect_scam returns, and with it total_score as it was at the
\* return (in halves)
detect_scam(message, conversation_history) ==
    detect_scam_history(message, conversation_history,
        scan_message(lower(message), 1,
                     [total_score2 |-> 0, detected_types |-> <<>>]))

get_scam_type_inDictOrder(detected_patterns) ==
    IF "urgency" \in Range(detected_patterns) THEN "Urgency-based Scam"
    ELSE IF "threat" \in Range(detected_patterns) THEN "Threat-based Scam"
    ELSE IF "sensitive_request" \in Range(detected_patterns) THEN "Data Theft Scam"
    ELSE IF "lottery" \in Range(detected_patterns) THEN "Lottery/Prize Scam"
    ELSE IF "financial_bait" \in Range(detected_patterns) THEN "Financial Fraud"
    ELSE IF "impersonation" \in Range(detected_patterns) THEN "Impersonation Scam"
    ELSE IF "link_request" \in Range(detected_patterns) THEN "Phishing Scam"
    ELSE IF "kyc" \in Range(detected_patterns) THEN "KYC/Verification Scam"
    ELSE "General Scam"

get_scam_type(detected_patterns) ==
    IF "lottery" \in Range(detected_patterns) THEN "Lottery/Prize Scam"
    ELSE IF "kyc" \in Range(detected_patterns) THEN "KYC/Verification Scam"
    ELSE IF "financial_bait" \in Range(detected_patterns) THEN "Financial Fraud"
    ELSE IF "threat" \in Range(detected_patterns) THEN "Threat-based Scam"
    ELSE IF "impersonation" \in Range(detected_patterns) THEN "Impersonation Scam"
    ELSE IF "sensitive_request" \in Range(detected_patterns) THEN "Data Theft Scam"
    ELSE IF "link_request" \in Range(detected_patterns) THEN "Phishing Scam"
    ELSE IF "urgency" \in Range(detected_patterns) THEN "Urgency-based Scam"
    ELSE "General Scam"

----------------------------------------------------------------------------
(* SessionManager: each method as a function of the store it runs on *)

Falsy(v) == v = NoValue \/ v = ""

\* the store after get_or_create_session(session_id)
get_or_create_session_sharedNotes(S, H, session_id, t) ==
    LET S1 == IF session_id \in DOMAIN S THEN S
              ELSE S @@ (session_id :> SessionState(session_id, 1, t))
    IN  [S1 EXCEPT ![session_id].last_activity = t]

get_or_create_session(S, H, session_id, t) ==
    LET S1 == IF session_id \in DOMAIN S THEN S
              ELSE S @@ (session_id :> SessionState(session_id, Len(H) + 1, t))
    IN  [S1 EXCEPT ![session_id].last_activity = t]

\* SessionState(): default_factory=list allocates the agent_notes list
new_agent_notes(S, H, session_id) ==
    IF session_id \in DOMAIN S THEN H ELSE Append(H, <<>>)

add_message_creates(S, session_id, sender, text, timestamp, t) ==
    LET S1 == IF session_id \in DOMAIN S THEN S
              ELSE S @@ (session_id :> SessionState(session_id, 1, t))
    IN  [S1 EXCEPT
            ![session_id].messages =
                Append(@, [sender |-> sender, text |-> text, timestamp |-> timestamp]),
            ![session_id].last_activity = t]

add_message(S, session_id, sender, text, timestamp, t) ==
    IF session_id \in DOMAIN S
    THEN [S EXCEPT
            ![session_id].messages =
                Append(@, [sender |-> sender,
                           text |-> text,
                           timestamp |-> IF Falsy(timestamp) THEN isoformat(t)
                                         ELSE timestamp]),
            ![session_id].last_activity = t]
    ELSE S

update_scam_detection_lastVerdict(S, session_id, is_scam, confidence, scam_type) ==
    IF session_id \in DOMAIN S
    THEN [S EXCEPT
            ![session_id].scam_detected = is_scam,
            ![session_id].scam_confidence = Max(@, confidence),
            ![session_id].scam_type = IF scam_type # "" THEN scam_type ELSE @]
    ELSE S

update_scam_detection_lastConfidence(S, session_id, is_scam, confidence, scam_type) ==
    IF session_id \in DOMAIN S
    THEN [S EXCEPT
            ![session_id].scam_detected = IF is_scam THEN TRUE ELSE @,
            ![session_id].scam_confidence = confidence,
            ![session_id].scam_type = IF scam_type # "" THEN scam_type ELSE @]
    ELSE S

update_scam_detection(S, session_id, is_scam, confidence, scam_type) ==
    IF session_id \in DOMAIN S
    THEN [S EXCEPT
            ![session_id].scam_detected = IF is_scam THEN TRUE ELSE @,
            ![session_id].scam_confidence = Max(@, confidence),
            ![session_id].scam_type = IF scam_type # "" THEN scam_type ELSE @]
    ELSE S

add_intelligence(S, session_id, intel) ==
    IF session_id \in DOMAIN S
    THEN [S EXCEPT ![session_id].intelligence = merge(@, intel)]
    ELSE S

\* add_agent_note appends to the list object the session refers to
add_agent_note(S, H, session_id, note) ==
    IF /\ session_id \in DOMAIN S
       /\ note # ""
       /\ note \notin Range(H[S[session_id].agent_notes])
    THEN [H EXCEPT ![S[session_id].agent_notes] = Append(@, note)]
    ELSE H

mark_callback_sent_toggle(S, session_id) ==
    IF session_id \in DOMAIN S
    THEN [S EXCEPT ![session_id].callback_sent = ~@]
    ELSE S

mark_callback_sent(S, session_id) ==
    IF session_id \in DOMAIN S
    THEN [S EXCEPT ![session_id].callback_sent = TRUE]
    ELSE S

\* cleanup_expired: the ids it deletes, and the store it leaves
expired(S, t) == {sid \in DOMAIN S : is_expired(S[sid], t)}

cleanup_expired(S, t) == [sid \in DOMAIN S \ expired(S, t) |-> S[sid]]

\* cleanup_expired: return len(expired)
cleanup_expired_count(S, t) == Cardinality(expired(S, t))

----------------------------------------------------------------------------
(* Observation: the last call, whether it found its session, whether it    *)
(* changed the store                                                       *)

Call(op, sid, S1, H1) ==
    [op |-> op, sid |-> sid,
     found |-> sid \in DOMAIN sessions,
     changed |-> S1 # sessions \/ H1 # heap,
     ret |-> NoValue]

Mutations ==
    {"add_message", "update_scam_detection", "add_intelligence",
     "add_agent_note", "mark_callback_sent"}

Idle == [pc |-> "idle"]

\* nothing merged into any field yet
NothingMerged == [k \in IntelKeys |-> {}]

\* no dictionary returned yet, or None returned
NoSnapshot == [session_id |-> NoValue]

----------------------------------------------------------------------------
(* Spec: one step per SessionManager call *)

\* no background task was added for the session yet: queued, the tasks
\* added and not started; posting, the tasks waiting for client.post;
\* delivered and raised, the posts that returned a response and those that
\* raised; forced, the calls of POST /report/{session_id}
NoTasks == [queued |-> 0, posting |-> 0, delivered |-> 0, raised |-> 0, forced |-> 0]

InitStore ==
    /\ sessions = <<>>
    /\ heap = <<>>
    /\ now = 0
    /\ lastOp = [op |-> "init", sid |-> NoValue, found |-> FALSE, changed |-> FALSE,
                 ret |-> NoValue]
    /\ recorded = [sid \in SessionIds |-> {}]
    /\ mergedIn = [sid \in SessionIds |-> NothingMerged]
    /\ created = [sid \in SessionIds |-> 0]
    /\ lock = "free"
    /\ thr = [t \in Threads |-> Idle]
    /\ snap = [t \in Threads |-> NoSnapshot]
    /\ lin = [sessions |-> <<>>, heap |-> <<>>]
    /\ tasks = [sid \in SessionIds |-> NoTasks]

\* a request is for detect_scam ("detect") or for get_scam_type alone
\* ("label")
NoRequest ==
    [kind |-> "none", message |-> <<>>, history |-> <<>>, patterns |-> <<>>,
     categories |-> {}, prior |-> {}, intel |-> {}]

NoResult ==
    [is_scam |-> FALSE, confidence |-> 0, detected_types |-> <<>>, scam_notes |-> "",
     total_score2 |-> 0]

\* detected: detect_scam has returned result; extracted: extract_all has
\* returned intel
NoVerdict ==
    [detected |-> FALSE, result |-> NoResult, scam_type |-> NoValue,
     extracted |-> FALSE, intel |-> EmptyIntel]

Init ==
    /\ InitStore
    /\ request = NoRequest
    /\ verdict = NoVerdict

Apply(op, sid, S1, H1) ==
    /\ sessions' = S1
    /\ heap' = H1
    /\ lastOp' = Call(op, sid, S1, H1)
    /\ UNCHANGED <<now, request, verdict, tasks, lock, thr, snap, lin>>

GetOrCreateSession(sid) ==
    /\ Apply("get_or_create_session", sid,
             get_or_create_session(sessions, heap, sid, now),
             new_agent_notes(sessions, heap, sid))
    /\ recorded' = IF sid \in DOMAIN sessions THEN recorded
                   ELSE [recorded EXCEPT ![sid] = {}]
    /\ mergedIn' = IF sid \in DOMAIN sessions THEN mergedIn
                   ELSE [mergedIn EXCEPT ![sid] = NothingMerged]
    /\ created' = IF sid \in DOMAIN sessions THEN created
                  ELSE [created EXCEPT ![sid] = @ + 1]

AddMessage(sid, m) ==
    /\ sid \in DOMAIN sessions => total_messages(sessions[sid]) < MaxMessages
    /\ Apply("add_message", sid,
             add_message(sessions, sid, m.sender, m.text, m.timestamp, now), heap)
    /\ UNCHANGED <<recorded, mergedIn, created>>

UpdateScamDetection(sid, v) ==
    /\ Apply("update_scam_detection", sid,
             update_scam_detection(sessions, sid, v.is_scam, v.confidence, v.scam_type),
             heap)
    /\ recorded' = IF sid \in DOMAIN sessions
                   THEN [recorded EXCEPT ![sid] = @ \cup {v.confidence}]
                   ELSE recorded
    /\ UNCHANGED <<mergedIn, created>>

AddIntelligence(sid, intel) ==
    /\ Apply("add_intelligence", sid, add_intelligence(sessions, sid, intel), heap)
    /\ mergedIn' = IF sid \in DOMAIN sessions
                 THEN [mergedIn EXCEPT ![sid] =
                          [k \in IntelKeys |->
                              @[k] \cup (IF k \in DOMAIN intel THEN Range(intel[k])
                                         ELSE {})]]
                 ELSE mergedIn
    /\ UNCHANGED <<recorded, created>>

AddAgentNote(sid, note) ==
    /\ Apply("add_agent_note", sid, sessions, add_agent_note(sessions, heap, sid, note))
    /\ UNCHANGED <<recorded, mergedIn, created>>

MarkCallbackSent(sid) ==
    /\ Apply("mark_callback_sent", sid, mark_callback_sent(sessions, sid), heap)
    /\ UNCHANGED <<recorded, mergedIn, created>>

CleanupExpired ==
    /\ sessions' = cleanup_expired(sessions, now)
    /\ lastOp' = [Call("cleanup_expired", NoValue, sessions', heap)
                     EXCEPT !.ret = cleanup_expired_count(sessions, now)]
    /\ mergedIn' = [sid \in SessionIds |->
                       IF sid \in expired(sessions, now) THEN NothingMerged
                       ELSE mergedIn[sid]]
    /\ UNCHANGED <<heap, now, request, verdict, tasks, recorded, created, lock, thr,
                   snap, lin>>

Tick ==
    /\ now < MaxTicks * TickStep
    /\ now' = now + TickStep
    /\ lastOp' = [op |-> "tick", sid |-> NoValue, found |-> FALSE, changed |-> FALSE,
                  ret |-> NoValue]
    /\ UNCHANGED <<sessions, heap, recorded, mergedIn, created, lock, thr, snap, lin,
                 request, verdict, tasks>>

Next ==
    \/ \E sid \in OpenIds : GetOrCreateSession(sid)
    \/ \E sid \in SessionIds, m \in MessageInputs : AddMessage(sid, m)
    \/ \E sid \in SessionIds, v \in VerdictInputs : UpdateScamDetection(sid, v)
    \/ \E sid \in SessionIds, intel \in IntelInputs : AddIntelligence(sid, intel)
    \/ \E sid \in SessionIds, note \in NoteInputs : AddAgentNote(sid, note)
    \/ \E sid \in SessionIds : MarkCallbackSent(sid)
    \/ CleanupExpired
    \/ Tick

Spec == Init /\ [][Next]_vars

----------------------------------------------------------------------------
(* SpecPair: one step per call, as in Spec, with two sessions open *)

PairMessages ==
    { [sender |-> "user", text |-> "ok", timestamp |-> NoValue] }

PairVerdicts ==
    { [is_scam |-> TRUE, confidence |-> 80, scam_type |-> "Lottery/Prize Scam"] }

PairIntel ==
    { [EmptyIntel EXCEPT !.upiIds = <<"a@ybl">>,
                         !.phoneNumbers = <<"+919876543210">>] }

PairNotes == {"n1"}

NextPair ==
    \/ \E sid \in SessionIds : GetOrCreateSession(sid)
    \/ \E sid \in SessionIds, m \in PairMessages : AddMessage(sid, m)
    \/ \E sid \in SessionIds, v \in PairVerdicts : UpdateScamDetection(sid, v)
    \/ \E sid \in SessionIds, intel \in PairIntel : AddIntelligence(sid, intel)
    \/ \E sid \in SessionIds, note \in PairNotes : AddAgentNote(sid, note)
    \/ \E sid \in SessionIds : MarkCallbackSent(sid)

SpecPair == Init /\ [][NextPair]_vars

----------------------------------------------------------------------------
(* SpecSweep: one step per call, two sessions open, the clock and the      *)
(* expiry sweep                                                            *)

NextSweep ==
    \/ \E sid \in SessionIds : GetOrCreateSession(sid)
    \/ \E sid \in SessionIds, m \in MessageInputs : AddMessage(sid, m)
    \/ \E sid \in SessionIds, v \in PairVerdicts : UpdateScamDetection(sid, v)
    \/ CleanupExpired
    \/ Tick

SpecSweep == Init /\ [][NextSweep]_vars

----------------------------------------------------------------------------
(* SpecMerge: one step per call; the dictionaries merged overlap, repeat a *)
(* value, lack keys and carry a key that is no field                       *)

MergeInputs ==
    { [EmptyIntel EXCEPT !.upiIds = <<"a@ybl", "b@paytm">>,
                         !.suspiciousKeywords = <<"urgent">>],
      [EmptyIntel EXCEPT !.upiIds = <<"b@paytm", "a@ybl">>,
                         !.phoneNumbers = <<"+919876543210">>],
      [upiIds |-> <<"c@upi", "c@upi">>, emails |-> <<"joe@gmail.com">>] }

NextMerge ==
    \/ \E sid \in OpenIds : GetOrCreateSession(sid)
    \/ \E sid \in SessionIds, m \in MessageInputs : AddMessage(sid, m)
    \/ \E sid \in SessionIds, intel \in MergeInputs : AddIntelligence(sid, intel)

SpecMerge == Init /\ [][NextMerge]_vars

----------------------------------------------------------------------------
(* SpecLong: one step per call on a session that grows past                *)
(* MAX_MESSAGES_PER_SESSION                                                *)

LongIntel ==
    { [EmptyIntel EXCEPT !.bankAccounts = <<"123456789012">>],
      [EmptyIntel EXCEPT !.upiIds = <<"a@ybl">>],
      [EmptyIntel EXCEPT !.phishingLinks = <<"http://bit.ly/x">>],
      [EmptyIntel EXCEPT !.phoneNumbers = <<"+919876543210">>,
                         !.suspiciousKeywords = <<"urgent">>] }

\* add_message, on sessions of up to MAX_MESSAGES_PER_SESSION + MaxMessages
AddMessageLong(sid, m) ==
    /\ sid \in DOMAIN sessions
           => total_messages(sessions[sid]) < MAX_MESSAGES_PER_SESSION + MaxMessages
    /\ Apply("add_message", sid,
             add_message(sessions, sid, m.sender, m.text, m.timestamp, now), heap)
    /\ UNCHANGED <<recorded, mergedIn, created>>

NextLong ==
    \/ \E sid \in OpenIds : GetOrCreateSession(sid)
    \/ \E sid \in SessionIds, m \in MessageInputs : AddMessageLong(sid, m)
    \/ \E sid \in SessionIds, v \in PairVerdicts : UpdateScamDetection(sid, v)
    \/ \E sid \in SessionIds, intel \in LongIntel : AddIntelligence(sid, intel)
    \/ \E sid \in SessionIds : MarkCallbackSent(sid)

SpecLong == Init /\ [][NextLong]_vars

----------------------------------------------------------------------------
(* SpecDetect: ScamDetector.detect_scam and get_scam_type applied to a     *)
(* request.  A request is built from the categories its message triggers,  *)
(* the categories the scammer's earlier messages trigger and the kinds of  *)
(* intelligence its texts hold, which it carries along for the claims.     *)

\* one text per category that matches one of its patterns and no pattern of
\* another category
Samples ==
    [urgency |-> <<Word("URGENT", "")>>,
     threat |-> <<Word("legal", " "), Word("action", "")>>,
     sensitive_request |-> <<Word("otp", "")>>,
     lottery |-> <<Word("Won", "")>>,
     financial_bait |-> <<Word("refund", "")>>,
     impersonation |-> <<Word("customer", "  "), Word("care", "")>>,
     link_request |-> <<Word("visit", "")>>,
     kyc |-> <<Word("KYC", "")>>]

IntelKinds == <<"upiIds", "phoneNumbers", "phishingLinks">>

\* one text per kind of intelligence that triggers no category
IntelSamples ==
    [upiIds |-> <<Word("pay", "@"), Word("ybl", "")>>,
     phoneNumbers |-> <<Word("9876543210", "")>>,
     phishingLinks |-> <<Word("www", "."), Word("evil", "."), Word("in", "")>>]

\* the samples of the names of S, in the order of names, from name k on
RECURSIVE samples_of(_, _, _, _)
samples_of(table, names, S, k) ==
    IF k > Len(names) THEN <<>>
    ELSE (IF names[k] \in S THEN <<table[names[k]]>> ELSE <<>>)
         \o samples_of(table, names, S, k + 1)

\* a message that triggers the categories S and holds the intelligence F
MessageOf(S, F) ==
    join(samples_of(Samples, Categories, S, 1)
         \o samples_of(IntelSamples, IntelKinds, F, 1))

Msg(sender, text) == [sender |-> sender, text |-> text]

Request(message, history, categories, prior, intel) ==
    [kind |-> "detect", message |-> message, history |-> history, patterns |-> <<>>,
     categories |-> categories, prior |-> prior, intel |-> intel]

AllCategories == Range(Categories)

\* the messages: every set of categories with every set of intelligence, and
\* messages with several triggers of one category, one trigger of two
\* categories, a link that is a trigger, and an address that is an email
Messages ==
    {[message |-> MessageOf(S, F), categories |-> S, intel |-> F] :
        S \in SUBSET AllCategories, F \in SUBSET Range(IntelKinds)}
    \cup
    {[message |-> <<Word("URGENT", " "), Word("now", " "), Word("hurry", "")>>,
      categories |-> {"urgency"}, intel |-> {}],
     [message |-> <<Word("You", " "), Word("have", " "), Word("won", " "),
                    Word("a", " "), Word("lottery", "! "), Word("Claim", " "),
                    Word("your", " "), Word("prize", " "), Word("now", "")>>,
      categories |-> {"lottery", "urgency"}, intel |-> {}],
     [message |-> <<Word("reward", "")>>,
      categories |-> {"lottery", "financial_bait"}, intel |-> {}],
     [message |-> <<Word("http", "://"), Word("bit", "."), Word("ly", "/"),
                    Word("x", "")>>,
      categories |-> {"link_request"}, intel |-> {"phishingLinks"}],
     [message |-> <<Word("contact", " "), Word("me", " "), Word("at", " "),
                    Word("joe", "@"), Word("gmail", "."), Word("com", "")>>,
      categories |-> {}, intel |-> {"upiIds"}]}

\* the categories the generated histories draw from
HistoryCategories == {"urgency", "lottery"}

\* the histories: none; a reply and then a scammer message for every set of
\* HistoryCategories; the user alone writing triggers; a trigger that spans
\* two scammer messages around a user message with a trigger and a link;
\* a scammer message with every category and intelligence
Histories ==
    {[history |-> <<>>, prior |-> {}, intel |-> {}]}
    \cup
    {[history |-> <<Msg("user", <<Word("ok", "")>>), Msg("scammer", MessageOf(T, {}))>>,
      prior |-> T, intel |-> {}] : T \in (SUBSET HistoryCategories) \ {{}}}
    \cup
    {[history |-> <<Msg("user", MessageOf({"lottery", "financial_bait",
                                           "sensitive_request"}, {}))>>,
      prior |-> {}, intel |-> {}],
     [history |-> <<Msg("scammer", <<Word("share", " "), Word("your", "")>>),
                    Msg("user", <<Word("ok", " "), Word("KYC", " "), Word("www", "."),
                                  Word("evil", "."), Word("in", "")>>),
                    Msg("scammer", <<Word("details", " "), Word("now", "")>>)>>,
      prior |-> {"sensitive_request", "urgency"}, intel |-> {"phishingLinks"}],
     [history |-> <<Msg("scammer",
                        MessageOf(AllCategories, {"upiIds", "phoneNumbers"}))>>,
      prior |-> AllCategories, intel |-> {"upiIds", "phoneNumbers"}]}

DetectRequests ==
    {Request(m.message, h.history, m.categories, h.prior, m.intel \cup h.intel) :
        m \in Messages, h \in Histories}

\* the lists handed to get_scam_type alone: up to two categories in either
\* order, and all of them in the reverse of the dictionary order
PatternLists ==
    {<<>>}
    \cup {<<a>> : a \in AllCategories}
    \cup {p \in AllCategories \X AllCategories : p[1] # p[2]}
    \cup {[k \in 1..Len(Categories) |-> Categories[Len(Categories) + 1 - k]]}

LabelRequests ==
    {[kind |-> "label", message |-> <<>>, history |-> <<>>, patterns |-> p,
      categories |-> Range(p), prior |-> {}, intel |-> {}] : p \in PatternLists}

InitDetect ==
    /\ InitStore
    /\ request \in DetectRequests \cup LabelRequests
    /\ verdict = NoVerdict

\* is_scam, confidence, patterns, notes = ScamDetector.detect_scam(message, history)
DetectScam ==
    /\ request.kind = "detect"
    /\ ~verdict.detected
    /\ verdict' = [verdict EXCEPT
                      !.detected = TRUE,
                      !.result = detect_scam(request.message, request.history)]
    /\ UNCHANGED <<sessions, heap, now, lastOp, recorded, mergedIn, created, lock, thr,
                   snap, lin, request, tasks>>

\* the list get_scam_type is called with: the one handed over, or the
\* detected_types of the detection
patterns_of(req, v) ==
    IF req.kind = "label" THEN req.patterns ELSE v.result.detected_types

\* ScamDetector.get_scam_type(patterns)
GetScamType ==
    /\ request.kind = "label" \/ verdict.detected
    /\ verdict.scam_type = NoValue
    /\ verdict' = [verdict EXCEPT !.scam_type = get_scam_type(patterns_of(request, verdict))]
    /\ UNCHANGED <<sessions, heap, now, lastOp, recorded, mergedIn, created, lock, thr,
                   snap, lin, request, tasks>>

NextDetect ==
    \/ DetectScam
    \/ GetScamType

SpecDetect == InitDetect /\ [][NextDetect]_vars

----------------------------------------------------------------------------
(* SpecExtract: IntelligenceExtractor.extract_all applied to a text that   *)
(* holds one address: an email address (local-part@domain.com) or a        *)
(* payment id (local-part@provider).                                       *)

\* the local parts, as words and the separators between them
LocalParts ==
    {<<"joe">>, <<"a", ".", "b">>, <<"a", "-", "b">>, <<"me">>}

\* a local part followed by @: its words, the last one before the @
RECURSIVE local_words(_)
local_words(pieces) ==
    IF Len(pieces) = 1 THEN <<Word(pieces[1], "@")>>
    ELSE <<Word(pieces[1], pieces[2])>> \o local_words(Tail(Tail(pieces)))

\* what precedes and what follows the address
Before ==
    {<<>>,
     <<Word("contact", " "), Word("me", " "), Word("at", " ")>>,
     <<Word("pay", " "), Word("to", " ")>>}

After == {<<>>, <<Word("now", "")>>}

\* the separators between the address and what follows it
AfterSeps == {" ", ". "}

\* the text before \o address \o after, the address ending in the word last
TextAround(before, address, end, after) ==
    before
    \o [address EXCEPT ![Len(address)].s = IF after = <<>> THEN SepHead[end] ELSE end]
    \o after

\* the texts whose only @ is in an email address of a .com domain, and the
\* texts whose only @ is in a payment id (email: which of the two)
ExtractRequests ==
    {[kind |-> "extract", email |-> TRUE, patterns |-> <<>>, history |-> <<>>,
      categories |-> {}, prior |-> {}, intel |-> {},
      message |-> TextAround(b, local_words(l) \o <<Word(d, "."), Word("com", "")>>,
                             e, a)] :
        b \in Before, l \in LocalParts, d \in {"gmail", "yahoo", "paytm"},
        e \in AfterSeps, a \in After}
    \cup
    {[kind |-> "extract", email |-> FALSE, patterns |-> <<>>, history |-> <<>>,
      categories |-> {}, prior |-> {}, intel |-> {"upiIds"},
      message |-> TextAround(b, local_words(l) \o <<Word(d, "")>>, e, a)] :
        b \in Before, l \in LocalParts, d \in {"ybl", "paytm"},
        e \in AfterSeps, a \in After}

InitExtract ==
    /\ InitStore
    /\ request \in ExtractRequests
    /\ verdict = NoVerdict

\* intel = IntelligenceExtractor.extract_all(text)
ExtractAll ==
    /\ request.kind = "extract"
    /\ ~verdict.extracted
    /\ verdict' = [verdict EXCEPT !.extracted = TRUE,
                                  !.intel = extract_all(request.message)]
    /\ UNCHANGED <<sessions, heap, now, lastOp, recorded, mergedIn, created, lock, thr,
                   snap, lin, request, tasks>>

NextExtract == ExtractAll

SpecExtract == InitExtract /\ [][NextExtract]_vars

----------------------------------------------------------------------------
(* SpecHandler: honeypot_endpoint on one session, one step per request     *)
(* handled.  A request with a wrong API key or a body that does not parse  *)
(* is answered before the session manager is reached and changes nothing.  *)
(* The reply and the strategy notes come from src/ai_agent.py and are      *)
(* inputs here.  Confidences are in 240ths.                                *)

\* req.message.text: the example of the classification, a text with no
\* trigger, a trigger with a payment id, a trigger with a link
HandlerTexts ==
    {<<Word("You", " "), Word("have", " "), Word("won", " "), Word("a", " "),
       Word("lottery", "! "), Word("Claim", " "), Word("your", " "),
       Word("prize", " "), Word("now", "")>>,
     <<Word("ok", "")>>,
     <<Word("URGENT", " "), Word("pay", "@"), Word("ybl", "")>>,
     <<Word("KYC", " "), Word("www", "."), Word("evil", "."), Word("in", "")>>}

\* req.conversationHistory
HandlerHistories ==
    {<<>>, <<Msg("scammer", <<Word("refund", "")>>), Msg("user", <<Word("ok", "")>>)>>}

HandlerRequests ==
    {[text |-> m, timestamp |-> NoValue, history |-> h] :
        m \in HandlerTexts, h \in HandlerHistories}

\* generate_response(...)
Replies == {<<Word("ok", "")>>}

\* full_text: the message, then the text of each scammer message of the
\* history after a blank
handler_full_text(message_text, history) ==
    join(<<message_text>> \o texts_of(SelectSeq(history, IsScammer)))

\* scam_type = ScamDetector.get_scam_type(patterns) if patterns else "Unknown"
handler_scam_type(patterns) ==
    IF patterns # <<>> THEN get_scam_type(patterns) ELSE "Unknown"

\* the store and the heap after the handler's calls to the session manager,
\* given what detect_scam returned
handler_store(S, H, session_id, req, detection, reply, strategy_notes, t) ==
    LET S1 == get_or_create_session(S, H, session_id, t)
        H1 == new_agent_notes(S, H, session_id)
        S2 == add_message(S1, session_id, "scammer", req.text, req.timestamp, t)
        S3 == update_scam_detection(S2, session_id, detection.is_scam,
                                    detection.confidence,
                                    handler_scam_type(detection.detected_types))
        S4 == add_intelligence(S3, session_id,
                               extract_all(handler_full_text(req.text, req.history)))
        S5 == add_message(S4, session_id, "user", reply, NoValue, t)
        H2 == add_agent_note(S5, H1, session_id, detection.scam_notes)
        H3 == add_agent_note(S5, H2, session_id, strategy_notes)
    IN  [sessions |-> S5, heap |-> H3]

\* the handler's effects, given what detect_scam returned
Handled(session_id, req, detection, reply, strategy_notes) ==
    /\ sessions' = handler_store(sessions, heap, session_id, req, detection, reply,
                                 strategy_notes, now).sessions
    /\ heap' = handler_store(sessions, heap, session_id, req, detection, reply,
                             strategy_notes, now).heap
    /\ tasks' = IF should_trigger_callback(sessions'[session_id])
                THEN [tasks EXCEPT ![session_id].queued = @ + 1]
                ELSE tasks
    /\ verdict' = [detected |-> TRUE, result |-> detection,
                   scam_type |-> handler_scam_type(detection.detected_types),
                   extracted |-> TRUE,
                   intel |-> extract_all(handler_full_text(req.text, req.history))]
    /\ lastOp' = [op |-> "honeypot_endpoint", sid |-> session_id,
                  found |-> session_id \in DOMAIN sessions, changed |-> TRUE,
                  ret |-> NoValue]
    /\ recorded' = [recorded EXCEPT ![session_id] =
                       (IF session_id \in DOMAIN sessions THEN @ ELSE {})
                       \cup {detection.confidence}]
    /\ mergedIn' = [mergedIn EXCEPT ![session_id] =
                       [k \in IntelKeys |->
                           Range(sessions'[session_id].intelligence[k])]]
    /\ created' = IF session_id \in DOMAIN sessions THEN created
                  ELSE [created EXCEPT ![session_id] = @ + 1]
    /\ UNCHANGED <<now, lock, thr, snap, lin, request>>

\* POST /api/honeypot
HoneypotEndpoint(session_id, req, reply, strategy_notes) ==
    /\ session_id \in DOMAIN sessions
          => total_messages(sessions[session_id]) + 2 <= 2 * MaxMessages
    /\ Handled(session_id, req, detect_scam(req.text, req.history), reply,
               strategy_notes)

NextHandler ==
    \E req \in HandlerRequests, reply \in Replies, strategy_notes \in NoteInputs :
        HoneypotEndpoint("s1", req, reply, strategy_notes)

SpecHandler == Init /\ [][NextHandler]_vars

----------------------------------------------------------------------------
(* SpecReport: the handler, POST /report/{session_id} and the background   *)
(* tasks running send_callback_to_guvi on one event loop.  A coroutine     *)
(* runs alone up to its next await; send_callback_to_guvi awaits once, in  *)
(* client.post, so a task is two steps: up to the post, and from the       *)
(* post's outcome to its end.  The handler awaits nothing between          *)
(* get_or_create_session and add_task.                                     *)

\* the requests handled under SpecReport: those with no conversationHistory
ReportRequests == {req \in HandlerRequests : req.history = <<>>}

\* what the steps other than the handler leave alone
ReportFrame ==
    UNCHANGED <<now, recorded, mergedIn, created, lock, thr, snap, lin, request,
                verdict>>

\* POST /report/{session_id} with a valid key, for a session of the store
\* (404 otherwise, and nothing changes): the task is added whatever
\* callback_sent is
ForceReport(session_id) ==
    /\ session_id \in DOMAIN sessions
    /\ tasks[session_id].forced < MaxForced
    /\ tasks' = [tasks EXCEPT ![session_id].queued = @ + 1,
                              ![session_id].forced = @ + 1]
    /\ lastOp' = [op |-> "force_report", sid |-> session_id, found |-> TRUE,
                  changed |-> FALSE, ret |-> NoValue]
    /\ UNCHANGED <<sessions, heap>>
    /\ ReportFrame

\* send_callback_to_guvi up to `await client.post(...)`: it returns when the
\* session is not in the store or callback_sent is set, and posts otherwise
TaskStart(session_id) ==
    /\ tasks[session_id].queued > 0
    /\ IF session_id \notin DOMAIN sessions
       THEN /\ tasks' = [tasks EXCEPT ![session_id].queued = @ - 1]
            /\ lastOp' = [op |-> "send_callback_to_guvi", sid |-> session_id,
                          found |-> FALSE, changed |-> FALSE, ret |-> "not found"]
       ELSE IF sessions[session_id].callback_sent
       THEN /\ tasks' = [tasks EXCEPT ![session_id].queued = @ - 1]
            /\ lastOp' = [op |-> "send_callback_to_guvi", sid |-> session_id,
                          found |-> TRUE, changed |-> FALSE, ret |-> "already sent"]
       ELSE /\ tasks' = [tasks EXCEPT ![session_id].queued = @ - 1,
                                      ![session_id].posting = @ + 1]
            /\ lastOp' = [op |-> "send_callback_to_guvi", sid |-> session_id,
                          found |-> TRUE, changed |-> FALSE, ret |-> "posting"]
    /\ UNCHANGED <<sessions, heap>>
    /\ ReportFrame

\* client.post returned a response, of whatever status code: the task goes
\* on to session_manager.mark_callback_sent(session_id)
TaskResponse(session_id) ==
    /\ tasks[session_id].posting > 0
    /\ tasks' = [tasks EXCEPT ![session_id].posting = @ - 1,
                              ![session_id].delivered = @ + 1]
    /\ sessions' = mark_callback_sent(sessions, session_id)
    /\ lastOp' = [op |-> "send_callback_to_guvi", sid |-> session_id,
                  found |-> session_id \in DOMAIN sessions,
                  changed |-> sessions' # sessions, ret |-> "response"]
    /\ UNCHANGED heap
    /\ ReportFrame

\* client.post raised (no connection, timeout): `except Exception` prints
\* the error and the task ends
TaskRaise(session_id) ==
    /\ tasks[session_id].posting > 0
    /\ tasks' = [tasks EXCEPT ![session_id].posting = @ - 1,
                              ![session_id].raised = @ + 1]
    /\ lastOp' = [op |-> "send_callback_to_guvi", sid |-> session_id,
                  found |-> session_id \in DOMAIN sessions,
                  changed |-> FALSE, ret |-> "raised"]
    /\ UNCHANGED <<sessions, heap>>
    /\ ReportFrame

NextReport ==
    \/ \E req \in ReportRequests, reply \in Replies, strategy_notes \in NoteInputs :
           HoneypotEndpoint("s1", req, reply, strategy_notes)
    \/ ForceReport("s1")
    \/ TaskStart("s1")
    \/ TaskResponse("s1")
    \/ TaskRaise("s1")

SpecReport == Init /\ [][NextReport]_vars

----------------------------------------------------------------------------
(* SpecThreads: the methods run by concurrent callers.  A mutating method  *)
(* enters `with self._lock:` and then performs its loads and stores one    *)
(* per step; get_session_data takes no lock and reads one field per step.  *)

\* the calls callers make (op, session id, argument) under SpecThreads
ThreadCalls ==
    { [op |-> "get_or_create_session", sid |-> sid, arg |-> NoValue] :
          sid \in SessionIds }
    \cup { [op |-> "add_message", sid |-> sid, arg |-> m] :
               sid \in SessionIds,
               m \in { [sender |-> "user", text |-> "ok", timestamp |-> NoValue] } }
    \cup { [op |-> "update_scam_detection", sid |-> "s1", arg |-> v] :
               v \in { [is_scam |-> TRUE, confidence |-> 80,
                        scam_type |-> "Lottery/Prize Scam"],
                       [is_scam |-> FALSE, confidence |-> 30,
                        scam_type |-> "Unknown"] } }
    \cup { [op |-> "add_intelligence", sid |-> "s1",
            arg |-> [EmptyIntel EXCEPT !.upiIds = <<"a@ybl">>,
                                       !.phoneNumbers = <<"+919876543210">>]] }

\* the calls callers make under SpecSnapshot
SnapshotCalls ==
    { [op |-> "get_or_create_session", sid |-> "s1", arg |-> NoValue],
      [op |-> "update_scam_detection", sid |-> "s1",
       arg |-> [is_scam |-> TRUE, confidence |-> 80, scam_type |-> "Phishing Scam"]],
      [op |-> "add_agent_note", sid |-> "s1", arg |-> "n1"],
      [op |-> "mark_callback_sent", sid |-> "s1", arg |-> NoValue],
      [op |-> "get_session_data", sid |-> "s1", arg |-> NoValue] }

\* the calls callers make under SpecThreadSweep
SweepCalls ==
    { [op |-> "get_or_create_session", sid |-> sid, arg |-> NoValue] :
          sid \in SessionIds }
    \cup { [op |-> "add_message", sid |-> "s1", arg |-> m] : m \in MessageInputs }
    \cup { [op |-> "cleanup_expired", sid |-> NoValue, arg |-> NoValue] }

\* the order the keys of an extract_all dictionary are iterated in
KeyOrder ==
    <<"bankAccounts", "upiIds", "phishingLinks", "phoneNumbers", "suspiciousKeywords">>

\* the fields get_session_data reads after session_id, in order
ReadOrder ==
    <<"scam_detected", "scam_confidence", "scam_type", "total_messages",
      "bankAccounts", "upiIds", "phishingLinks", "phoneNumbers",
      "suspiciousKeywords", "agent_notes", "callback_sent">>

\* list(set(xs)): the distinct values, in any order
ListOfSet(xs) ==
    {q \in [1..Cardinality(Range(xs)) -> Range(xs)] :
        \A i, j \in DOMAIN q : i # j => q[i] # q[j]}

\* the call run alone on the store (S, H)
RunAlone(c, S, H, t) ==
    CASE c.op = "get_or_create_session" ->
            [sessions |-> get_or_create_session(S, H, c.sid, t),
             heap |-> new_agent_notes(S, H, c.sid)]
      [] c.op = "add_message" ->
            [sessions |-> add_message(S, c.sid, c.arg.sender, c.arg.text,
                                      c.arg.timestamp, t),
             heap |-> H]
      [] c.op = "update_scam_detection" ->
            [sessions |-> update_scam_detection(S, c.sid, c.arg.is_scam,
                                                c.arg.confidence, c.arg.scam_type),
             heap |-> H]
      [] c.op = "add_intelligence" ->
            [sessions |-> add_intelligence(S, c.sid, c.arg), heap |-> H]
      [] c.op = "add_agent_note" ->
            [sessions |-> S, heap |-> add_agent_note(S, H, c.sid, c.arg)]
      [] c.op = "mark_callback_sent" ->
            [sessions |-> mark_callback_sent(S, c.sid), heap |-> H]

FirstStep(op) ==
    CASE op = "get_or_create_session" -> "create"
      [] op = "add_message" -> "append"
      [] op = "update_scam_detection" -> "flag"
      [] op = "add_intelligence" -> "merge"
      [] op = "add_agent_note" -> "note"
      [] op = "mark_callback_sent" -> "mark"
      [] op = "cleanup_expired" -> "scan"

\* the locals a method body starts with
FirstLocal(op) ==
    CASE op = "add_intelligence" -> 1
      [] op = "cleanup_expired" ->
            [todo |-> DOMAIN sessions, expired |-> <<>>, found |-> {}, passed |-> {}]
      [] OTHER -> NoValue

At(t, pc) == thr[t].pc = pc

Goto(t, pc) == thr' = [thr EXCEPT ![t].pc = pc]

\* a caller makes a call
Start(t, c) ==
    /\ At(t, "idle")
    /\ c.op = "add_message" /\ c.sid \in DOMAIN sessions
           => total_messages(sessions[c.sid]) < MaxMessages
    /\ thr' = [thr EXCEPT ![t] =
                  [pc |-> IF c.op = "get_session_data" THEN "lookup" ELSE "acquire",
                   op |-> c.op, sid |-> c.sid, arg |-> c.arg, loc |-> NoValue]]
    /\ UNCHANGED <<sessions, heap, now, request, verdict, tasks, lastOp, recorded,
                   mergedIn, created, lock, snap, lin>>

\* `with self._lock:` is entered when no other thread holds the lock
acquire_noWait(t) == TRUE

acquire_perSession(t) ==
    IF lock = "free" THEN TRUE ELSE thr[lock].sid # thr[t].sid

acquire(t) == lock = "free"

Enter(t) ==
    /\ At(t, "acquire")
    /\ acquire(t)
    /\ lock' = t
    /\ thr' = [thr EXCEPT ![t].pc = FirstStep(thr[t].op),
                          ![t].loc = FirstLocal(thr[t].op)]
    /\ UNCHANGED <<sessions, heap, now, request, verdict, tasks, lastOp, recorded,
                   mergedIn, created, snap>>

Acquire(t) ==
    /\ Enter(t)
    /\ lin' = RunAlone(thr[t], lin.sessions, lin.heap, now)

\* entering the lock while the clock runs: the calls read the clock inside
\* their bodies, so no reference run from the time of entry is kept
AcquireTimed(t) ==
    /\ Enter(t)
    /\ UNCHANGED lin

\* leaving the `with` block
Release(t) ==
    /\ At(t, "release")
    /\ lock' = "free"
    /\ thr' = [thr EXCEPT ![t] = Idle]
    /\ UNCHANGED <<sessions, heap, now, request, verdict, tasks, lastOp, recorded,
                   mergedIn, created, snap, lin>>

Body(t) == UNCHANGED <<now, request, verdict, tasks, lastOp, recorded, mergedIn, created, lock, snap, lin>>

StepCreate_always(t) ==
    /\ At(t, "create")
    /\ sessions' = [x \in DOMAIN sessions \cup {thr[t].sid} |->
                       IF x = thr[t].sid
                       THEN SessionState(thr[t].sid, Len(heap) + 1, now)
                       ELSE sessions[x]]
    /\ heap' = Append(heap, <<>>)
    /\ created' = [created EXCEPT ![thr[t].sid] = @ + 1]
    /\ Goto(t, "touch")
    /\ UNCHANGED <<now, request, verdict, tasks, lastOp, recorded, mergedIn, lock,
                   snap, lin>>

\* get_or_create_session, line 113-114
StepCreate(t) ==
    /\ At(t, "create")
    /\ sessions' = IF thr[t].sid \in DOMAIN sessions THEN sessions
                   ELSE sessions @@
                        (thr[t].sid :> SessionState(thr[t].sid, Len(heap) + 1, now))
    /\ heap' = new_agent_notes(sessions, heap, thr[t].sid)
    /\ created' = IF thr[t].sid \in DOMAIN sessions THEN created
                  ELSE [created EXCEPT ![thr[t].sid] = @ + 1]
    /\ Goto(t, "touch")
    /\ UNCHANGED <<now, request, verdict, tasks, lastOp, recorded, mergedIn, lock,
                   snap, lin>>

\* session.last_activity = datetime.utcnow()
StepTouch(t) ==
    /\ At(t, "touch")
    /\ sessions' = [sessions EXCEPT ![thr[t].sid].last_activity = now]
    /\ Goto(t, "release")
    /\ UNCHANGED heap
    /\ Body(t)

\* add_message, line 132-138
StepAppend(t) ==
    /\ At(t, "append")
    /\ IF thr[t].sid \in DOMAIN sessions
       THEN /\ sessions' = [sessions EXCEPT ![thr[t].sid].messages =
                   Append(@, [sender |-> thr[t].arg.sender,
                              text |-> thr[t].arg.text,
                              timestamp |-> IF Falsy(thr[t].arg.timestamp)
                                            THEN isoformat(now)
                                            ELSE thr[t].arg.timestamp])]
            /\ Goto(t, "touch")
       ELSE /\ UNCHANGED sessions
            /\ Goto(t, "release")
    /\ UNCHANGED heap
    /\ Body(t)

\* update_scam_detection, line 150-153
StepFlag(t) ==
    /\ At(t, "flag")
    /\ IF thr[t].sid \in DOMAIN sessions
       THEN /\ sessions' = IF thr[t].arg.is_scam
                           THEN [sessions EXCEPT ![thr[t].sid].scam_detected = TRUE]
                           ELSE sessions
            /\ Goto(t, "loadconf")
       ELSE /\ UNCHANGED sessions
            /\ Goto(t, "release")
    /\ UNCHANGED heap
    /\ Body(t)

\* line 154, right-hand side: max(session.scam_confidence, confidence)
StepLoadConf(t) ==
    /\ At(t, "loadconf")
    /\ thr' = [thr EXCEPT
                 ![t].loc = Max(sessions[thr[t].sid].scam_confidence,
                                thr[t].arg.confidence),
                 ![t].pc = "storeconf"]
    /\ UNCHANGED <<sessions, heap>>
    /\ Body(t)

\* line 154, the assignment
StepStoreConf(t) ==
    /\ At(t, "storeconf")
    /\ sessions' = [sessions EXCEPT ![thr[t].sid].scam_confidence = thr[t].loc]
    /\ Goto(t, "type")
    /\ UNCHANGED heap
    /\ Body(t)

\* line 155-156
StepType(t) ==
    /\ At(t, "type")
    /\ sessions' = IF thr[t].arg.scam_type # ""
                   THEN [sessions EXCEPT ![thr[t].sid].scam_type = thr[t].arg.scam_type]
                   ELSE sessions
    /\ Goto(t, "release")
    /\ UNCHANGED heap
    /\ Body(t)

\* add_intelligence -> ExtractedIntelligence.merge: one key of the dictionary
StepMerge(t) ==
    /\ At(t, "merge")
    /\ IF thr[t].sid \in DOMAIN sessions
       THEN LET k == KeyOrder[thr[t].loc] IN
            /\ sessions' = [sessions EXCEPT ![thr[t].sid].intelligence[k] =
                               merge_values(@, thr[t].arg[k])]
            /\ thr' = [thr EXCEPT
                         ![t].loc = @ + 1,
                         ![t].pc = IF thr[t].loc = Len(KeyOrder) THEN "release"
                                   ELSE "merge"]
       ELSE /\ UNCHANGED sessions
            /\ Goto(t, "release")
    /\ UNCHANGED heap
    /\ Body(t)

\* add_agent_note, line 172-174
StepNote(t) ==
    /\ At(t, "note")
    /\ heap' = add_agent_note(sessions, heap, thr[t].sid, thr[t].arg)
    /\ Goto(t, "release")
    /\ UNCHANGED sessions
    /\ Body(t)

\* mark_callback_sent, line 179-181
StepMark(t) ==
    /\ At(t, "mark")
    /\ sessions' = mark_callback_sent(sessions, thr[t].sid)
    /\ Goto(t, "release")
    /\ UNCHANGED heap
    /\ Body(t)

\* cleanup_expired, line 202: the comprehension examines one session; found
\* and passed remember how each session was judged
StepScan(t) ==
    /\ At(t, "scan")
    /\ LET l == thr[t].loc IN
       IF l.todo = {}
       THEN Goto(t, IF l.expired = <<>> THEN "release" ELSE "delete")
       ELSE \E sid \in l.todo :
               LET old == sid \in DOMAIN sessions /\ is_expired(sessions[sid], now)
               IN  thr' = [thr EXCEPT ![t].loc =
                              [todo |-> l.todo \ {sid},
                               expired |-> IF old THEN Append(l.expired, sid)
                                           ELSE l.expired,
                               found |-> IF old THEN l.found \cup {sid} ELSE l.found,
                               passed |-> IF old THEN l.passed
                                          ELSE l.passed \cup {sid}]]
    /\ UNCHANGED <<sessions, heap>>
    /\ Body(t)

\* cleanup_expired, line 203-204: del self._sessions[sid]
StepDelete(t) ==
    /\ At(t, "delete")
    /\ LET sid == Head(thr[t].loc.expired) IN
       /\ sessions' = [x \in DOMAIN sessions \ {sid} |-> sessions[x]]
       /\ thr' = [thr EXCEPT
                    ![t].loc.expired = Tail(@),
                    ![t].pc = IF Tail(thr[t].loc.expired) = <<>> THEN "release"
                              ELSE "delete"]
    /\ UNCHANGED heap
    /\ Body(t)

\* get_session_data, line 185-189: no lock is taken
StepLookup(t) ==
    /\ At(t, "lookup")
    /\ IF thr[t].sid \in DOMAIN sessions
       THEN /\ thr' = [thr EXCEPT
                         ![t].pc = "read",
                         ![t].loc = [at |-> 1,
                                     dict |-> [session_id |->
                                                  sessions[thr[t].sid].session_id,
                                               intelligence |-> <<>>]]]
            /\ UNCHANGED snap
       ELSE /\ thr' = [thr EXCEPT ![t] = Idle]
            /\ snap' = [snap EXCEPT ![t] = NoSnapshot]
    /\ UNCHANGED <<sessions, heap, now, request, verdict, tasks, lastOp, recorded,
                   mergedIn, created, lock, lin>>

\* the value get_session_data puts in the dictionary for one field
ReadField(s, f) ==
    CASE f = "total_messages" -> {total_messages(s)}
      [] f \in IntelKeys -> ListOfSet(s.intelligence[f])
      [] OTHER -> {s[f]}

\* get_session_data, line 190-196: one field is read; after the last one the
\* dictionary is returned
StepRead(t) ==
    /\ At(t, "read")
    /\ LET f == ReadOrder[thr[t].loc.at]
           last == thr[t].loc.at = Len(ReadOrder)
       IN  \E v \in ReadField(sessions[thr[t].sid], f) :
               LET d == IF f \in IntelKeys
                        THEN [thr[t].loc.dict EXCEPT !.intelligence = @ @@ (f :> v)]
                        ELSE thr[t].loc.dict @@ (f :> v)
               IN
               /\ thr' = [thr EXCEPT ![t] =
                             IF last THEN Idle
                             ELSE [@ EXCEPT !.loc = [at |-> thr[t].loc.at + 1,
                                                    dict |-> d]]]
               /\ snap' = IF last THEN [snap EXCEPT ![t] = d] ELSE snap
    /\ UNCHANGED <<sessions, heap, now, request, verdict, tasks, lastOp, recorded,
                   mergedIn, created, lock, lin>>

UpdateSteps(t) ==
    \/ StepFlag(t)
    \/ StepLoadConf(t)
    \/ StepStoreConf(t)
    \/ StepType(t)

NextThreads ==
    \E t \in Threads :
        \/ \E c \in ThreadCalls : Start(t, c)
        \/ Acquire(t)
        \/ StepCreate(t)
        \/ StepTouch(t)
        \/ StepAppend(t)
        \/ UpdateSteps(t)
        \/ StepMerge(t)
        \/ Release(t)

SpecThreads == Init /\ [][NextThreads]_vars

\* SpecThreadSweep: concurrent callers, the clock and the expiry sweep
NextThreadSweep ==
    \/ \E t \in Threads :
           \/ \E c \in SweepCalls : Start(t, c)
           \/ AcquireTimed(t)
           \/ StepCreate(t)
           \/ StepTouch(t)
           \/ StepAppend(t)
           \/ StepScan(t)
           \/ StepDelete(t)
           \/ Release(t)
    \/ Tick

SpecThreadSweep == Init /\ [][NextThreadSweep]_vars

NextSnapshot ==
    \E t \in Threads :
        \/ \E c \in SnapshotCalls : Start(t, c)
        \/ Acquire(t)
        \/ StepCreate(t)
        \/ StepTouch(t)
        \/ UpdateSteps(t)
        \/ StepNote(t)
        \/ StepMark(t)
        \/ Release(t)
        \/ StepLookup(t)
        \/ StepRead(t)

SpecSnapshot == Init /\ [][NextSnapshot]_vars

----------------------------------------------------------------------------
(* Claims checked under Spec *)

Live == DOMAIN sessions
Kept == DOMAIN sessions \cap DOMAIN sessions'

ShouldReport(s) == should_trigger_callback(s)

\* C1: in every reachable session state the report-readiness decision
\* (should_trigger_callback) is true exactly when scamDetected holds,
\* reported does not, and the session holds a bank identifier, a payment
\* identifier or a link, or has at least MIN_MESSAGES_FOR_CALLBACK messages.
C1_ShouldReportIff ==
    \A sid \in Live :
        LET s == sessions[sid] IN
        should_trigger_callback(s) <=>
            /\ s.scam_detected
            /\ ~s.callback_sent
            /\ \/ s.intelligence.bankAccounts # <<>>
               \/ s.intelligence.upiIds # <<>>
               \/ s.intelligence.phishingLinks # <<>>
               \/ Len(s.messages) >= MIN_MESSAGES_FOR_CALLBACK

\* reportable on intelligence alone, below the message minimum
C1_Witness ==
    \E sid \in Live :
        /\ should_trigger_callback(sessions[sid])
        /\ Len(sessions[sid].messages) < MIN_MESSAGES_FOR_CALLBACK

C2_Step ==
    /\ \A sid \in DOMAIN sessions' \ DOMAIN sessions :
           ~ShouldReport(sessions'[sid])
    /\ \A sid \in Kept :
           LET s == sessions[sid]
               s1 == sessions'[sid]
               merged == /\ lastOp'.op = "add_intelligence"
                         /\ lastOp'.sid = sid
                         /\ has_good_intel(s1)
               reached == /\ lastOp'.op = "add_message"
                          /\ lastOp'.sid = sid
                          /\ Len(s1.messages) >= MIN_MESSAGES_FOR_CALLBACK
           IN  /\ (s.scam_detected /\ ~s.callback_sent /\ ~ShouldReport(s))
                      => (ShouldReport(s1) <=> (merged \/ reached))
               /\ s.callback_sent => ~ShouldReport(s1)

C3_ScamDetectedMonotonic ==
    [][\A sid \in Kept :
          sessions[sid].scam_detected => sessions'[sid].scam_detected]_vars

\* a non-scam verdict ("Unknown") recorded after the scam verdict of
\* confidence 80 left scamDetected set
C3_Witness ==
    \E sid \in Live :
        /\ sessions[sid].scam_detected
        /\ sessions[sid].scam_type = "Unknown"
        /\ sessions[sid].scam_confidence = 80
        /\ lastOp.op = "update_scam_detection"
        /\ lastOp.sid = sid

SetMax(S) == CHOOSE x \in S : \A y \in S : x >= y

C4_Inv ==
    \A sid \in Live :
        sessions[sid].scam_confidence = SetMax(recorded[sid] \cup {0})

C4_Step ==
    \A sid \in Kept :
        sessions'[sid].scam_confidence >= sessions[sid].scam_confidence

\* C4: scamConfidence is the maximum of 0 and every confidence recorded for
\* the session so far, and no step lowers it.
C4_ConfidenceIsMax == []C4_Inv /\ [][C4_Step]_vars

\* the lower confidence 30 was recorded after the higher 80
C4_Witness ==
    \E sid \in Live :
        /\ recorded[sid] = {30, 80}
        /\ sessions[sid].scam_confidence = 80
        /\ sessions[sid].scam_type = "Unknown"

C5_Step ==
    /\ (/\ lastOp'.op = "mark_callback_sent"
        /\ lastOp'.sid \in Live
        /\ sessions[lastOp'.sid].callback_sent)
           => UNCHANGED <<sessions, heap, now, request, verdict, tasks, recorded>>
    /\ \A sid \in Kept :
           sessions[sid].callback_sent => sessions'[sid].callback_sent

\* C5: mark_callback_sent on a session already marked changes nothing (two
\* calls leave the state one call leaves), and no step of the session
\* manager takes reported from true back to false.
C5_MarkReportedIdempotent == [][C5_Step]_vars

\* the second mark_callback_sent on a session has just run
C5_Witness ==
    \E sid \in Live :
        /\ sessions[sid].callback_sent
        /\ lastOp = [op |-> "mark_callback_sent", sid |-> sid,
                     found |-> TRUE, changed |-> FALSE, ret |-> NoValue]

C6_Step ==
    /\ (lastOp'.op \in Mutations /\ lastOp'.sid \notin Live)
           => UNCHANGED <<sessions, heap>>
    /\ (DOMAIN sessions' \ DOMAIN sessions # {})
           => lastOp'.op = "get_or_create_session"

\* C6: a mutation call (add_message, update_scam_detection,
\* add_intelligence, add_agent_note, mark_callback_sent) naming an id that
\* is not in the store leaves the store unchanged, and only
\* get_or_create_session adds an id to the store.
C6_UnknownIdNoOp == [][C6_Step]_vars

\* a mutation addressed to an unknown id has just run beside a live session
C6_Witness ==
    /\ lastOp.op \in Mutations
    /\ ~lastOp.found
    /\ ~lastOp.changed
    /\ Live # {}

----------------------------------------------------------------------------
(* Claims checked under SpecPair *)

\* every field of a session, the agent_notes list by its contents
SessionView(sid) ==
    IF sid \in DOMAIN sessions
    THEN [sessions[sid] EXCEPT !.agent_notes = heap[@]]
    ELSE NoValue

C8_Step ==
    \A b \in SessionIds :
        lastOp'.sid # b => SessionView(b)' = SessionView(b)

\* C8: a call addressed to one session leaves every field of every other
\* session as it was (messages, scam flags, intelligence, notes, reported),
\* and neither adds nor removes another session.
C8_SessionsIsolated == [][C8_Step]_vars

\* both sessions hold data of their own, and the last call changed s1
C8_Witness ==
    /\ Live = SessionIds
    /\ lastOp = [op |-> "add_agent_note", sid |-> "s1",
                 found |-> TRUE, changed |-> TRUE, ret |-> NoValue]
    /\ sessions["s2"].callback_sent
    /\ sessions["s2"].scam_detected
    /\ heap[sessions["s2"].agent_notes] = <<>>
    /\ ~sessions["s1"].scam_detected
    /\ Len(sessions["s1"].messages) # Len(sessions["s2"].messages)

----------------------------------------------------------------------------
(* Claims checked under SpecThreads *)

InCritical(t) ==
    thr[t].pc \in {"create", "touch", "append", "flag", "loadconf", "storeconf",
                   "type", "merge", "note", "mark", "release"}

Waiting(t) == At(t, "acquire") /\ lock # "free"

\* C7: whenever no caller is inside a method body, the store is the one
\* obtained by running the calls made so far one after another, each alone,
\* in the order they entered the lock: no append, verdict or merge is lost.
C7_Linearizable ==
    (\A t \in Threads : ~InCritical(t))
        => sessions = lin.sessions /\ heap = lin.heap

\* two update_scam_detection calls on the same session overlap: one is
\* between its load and its store of scam_confidence, the other waits
C7_Witness ==
    \E t1, t2 \in Threads :
        /\ At(t1, "storeconf")
        /\ Waiting(t2)
        /\ thr[t2].op = "update_scam_detection"
        /\ thr[t1].sid = thr[t2].sid
        /\ thr[t1].arg # thr[t2].arg

\* C9 as stated: no caller mutating a session is made to wait because
\* another caller is inside a mutation of a different session.
C9_NoCrossSessionWaiting ==
    \A t1, t2 \in Threads :
        ~(Waiting(t1) /\ lock = t2 /\ InCritical(t2) /\ thr[t1].sid # thr[t2].sid)

C9_Mutex ==
    /\ \A t1, t2 \in Threads : InCritical(t1) /\ InCritical(t2) => t1 = t2
    /\ \A t \in Threads : InCritical(t) => lock = t

C9_Blocked == \A t \in Threads : Waiting(t) => thr'[t] = thr[t]

\* C9 amended: SessionManager._lock is one critical section for all
\* sessions: at most one caller is inside a mutation at any time, whatever
\* the sessions addressed, and a caller at the lock does not move while
\* another caller holds it.
C9_GlobalLock == []C9_Mutex /\ [][C9_Blocked]_vars

\* a caller appending to one session waits while another caller is inside
\* an append to the other session
C9_Witness ==
    \E t1, t2 \in Threads :
        /\ Waiting(t1)
        /\ thr[t1].op = "add_message"
        /\ lock = t2
        /\ At(t2, "touch")
        /\ thr[t2].op = "add_message"
        /\ thr[t1].sid # thr[t2].sid

----------------------------------------------------------------------------
(* Claims checked under SpecSnapshot *)

\* the values a returned dictionary shows: agent_notes is the list itself
SnapshotValue(d) == [d EXCEPT !.agent_notes = heap[d.agent_notes]]

C10_Step ==
    \A t \in Threads :
        (snap[t] # NoSnapshot /\ snap'[t] = snap[t])
            => SnapshotValue(snap[t])' = SnapshotValue(snap[t])

\* C10 as stated: once get_session_data has returned a dictionary, no later
\* mutation of the session changes a value in it.
C10_SnapshotIsCopy == [][C10_Step]_vars

----------------------------------------------------------------------------
(* Activity time and expiry *)

Touching == Mutations \cup {"get_or_create_session"}

C11_Step ==
    \A sid \in DOMAIN sessions' :
        (/\ lastOp' # lastOp
         /\ lastOp'.op \in Touching
         /\ lastOp'.sid = sid)
            => sessions'[sid].last_activity = now'

\* C11: after every get_or_create_session, add_message, update_scam_detection,
\* add_intelligence, add_agent_note or mark_callback_sent on a session in the
\* store, that session's last_activity is the time of the call.
C11_LastActivityTouched == [][C11_Step]_vars

Idle_for(sid) == now - sessions[sid].last_activity

C12_Step ==
    lastOp'.op = "cleanup_expired"
        => /\ DOMAIN sessions' =
                  {sid \in DOMAIN sessions : Idle_for(sid) <= SESSION_TIMEOUT_SECONDS}
           /\ \A sid \in DOMAIN sessions' : sessions'[sid] = sessions[sid]
           /\ heap' = heap
           /\ lastOp'.ret = Cardinality(DOMAIN sessions \ DOMAIN sessions')

\* C12: cleanup_expired removes exactly the sessions whose last_activity is
\* older than SESSION_TIMEOUT_SECONDS: none of them remains, every session
\* idle for at most the timeout stays as it was, and the count returned is the
\* number of sessions removed.
C12_SweepRemovesExactlyExpired == [][C12_Step]_vars

\* a sweep removed one session and kept one that was idle for exactly the timeout
C12_Witness ==
    /\ lastOp.op = "cleanup_expired"
    /\ lastOp.ret = 1
    /\ \E sid \in DOMAIN sessions : Idle_for(sid) = SESSION_TIMEOUT_SECONDS

----------------------------------------------------------------------------
(* Intelligence accumulation, checked under SpecMerge *)

\* the contents of the five fields, as sets
AsSets(intel) == [k \in IntelKeys |-> Range(intel[k])]

C13_Inv ==
    \A sid \in Live :
        LET x == sessions[sid].intelligence IN
        /\ \A k \in IntelKeys :
               /\ Range(x[k]) = mergedIn[sid][k]
               /\ Len(x[k]) = Cardinality(Range(x[k]))
        /\ \A a \in MergeInputs :
               /\ merge(merge(x, a), a) = merge(x, a)
               /\ \A b \in MergeInputs :
                      AsSets(merge(merge(x, a), b)) = AsSets(merge(merge(x, b), a))

C13_Step ==
    \A sid \in Kept, k \in IntelKeys :
        Range(sessions[sid].intelligence[k]) \subseteq Range(sessions'[sid].intelligence[k])

\* C13: after any sequence of add_intelligence calls each of the five fields
\* holds, as a set, exactly the union of the values merged into it, without a
\* duplicate, and no step removes an entry; merging a dictionary twice equals
\* merging it once, and two dictionaries merged in either order give the same
\* set contents.
C13_MergeIsUnion == []C13_Inv /\ [][C13_Step]_vars

\* three payment ids came from overlapping dictionaries, and the last merge
\* added nothing
C13_Witness ==
    \E sid \in Live :
        /\ Len(sessions[sid].intelligence.upiIds) = 3
        /\ Len(sessions[sid].intelligence.phoneNumbers) = 1
        /\ lastOp.op = "add_intelligence"
        /\ lastOp.sid = sid
        /\ ~lastOp.changed

----------------------------------------------------------------------------
(* End of engagement, checked under SpecLong *)

ActionableIntel(s) ==
    \E k \in {"bankAccounts", "upiIds", "phishingLinks"} : s.intelligence[k] # <<>>

\* C15: in every reachable session state should_end_session is true exactly
\* when the message count has reached MAX_MESSAGES_PER_SESSION, or the session
\* holds a bank account, payment id or link and the count is at least 8; the
\* value does not depend on scam_detected or callback_sent.
C15_ShouldEndIff ==
    \A sid \in Live :
        LET s == sessions[sid] IN
        /\ should_end_session(s)
               <=> \/ Len(s.messages) >= MAX_MESSAGES_PER_SESSION
                   \/ (ActionableIntel(s) /\ Len(s.messages) >= 8)
        /\ \A d \in BOOLEAN, c \in BOOLEAN :
               should_end_session([s EXCEPT !.scam_detected = d, !.callback_sent = c])
                   = should_end_session(s)

\* the cap is reached by a session without actionable intelligence that was
\* never flagged
C15_Witness ==
    \E sid \in Live :
        /\ total_messages(sessions[sid]) = MAX_MESSAGES_PER_SESSION
        /\ ~has_good_intel(sessions[sid])
        /\ sessions[sid].intelligence.phoneNumbers # <<>>
        /\ ~sessions[sid].scam_detected
        /\ should_end_session(sessions[sid])

----------------------------------------------------------------------------
(* Creation and the sweep under concurrent callers, checked under          *)
(* SpecThreadSweep                                                         *)

\* C16, as stated: a SessionState is constructed at most once per session id
\* for the whole run, so get_or_create_session never hands out a second fresh
\* record for an id.
C16_CreatedOncePerId == \A sid \in SessionIds : created[sid] <= 1

C16_Inv ==
    /\ \A sid \in Live : created[sid] >= 1
    /\ \A a, b \in Live : a # b => sessions[a].agent_notes # sessions[b].agent_notes

C16_Step ==
    /\ \A sid \in SessionIds :
           created'[sid] # created[sid]
               => /\ sid \notin DOMAIN sessions
                  /\ created'[sid] = created[sid] + 1
                  /\ sid \in DOMAIN sessions'
                  /\ sessions'[sid] = SessionState(sid, Len(heap'), now)
                  /\ heap'[Len(heap')] = <<>>
    /\ \A t \in Threads :
           /\ (/\ thr[t].pc = "create"
               /\ thr'[t].pc = "touch"
               /\ thr[t].sid \in DOMAIN sessions)
                  => sessions' = sessions /\ heap' = heap /\ created' = created
           /\ (/\ thr[t].pc = "touch"
               /\ thr[t].op = "get_or_create_session"
               /\ thr'[t].pc = "release")
                  => sessions' = [sessions EXCEPT ![thr[t].sid].last_activity = now]

\* C16, amended: a SessionState is constructed only by a get_or_create_session
\* that finds its id absent from the store (the first reference, or the first
\* one after cleanup_expired removed the session); while the record is in the
\* store every later or concurrent get_or_create_session with that id leaves
\* the record and its accumulated fields as they are, and every
\* get_or_create_session sets last_activity to the current time.
C16_CreatedOnlyWhenAbsent == []C16_Inv /\ [][C16_Step]_vars

\* the session was swept and created again, has a message since, and a caller
\* has just been handed that record by get_or_create_session
C16_Witness ==
    /\ "s1" \in Live
    /\ created["s1"] = 2
    /\ sessions["s1"].messages # <<>>
    /\ \E t \in Threads :
           /\ thr[t].pc = "release"
           /\ thr[t].op = "get_or_create_session"
           /\ thr[t].sid = "s1"

C17_Inv ==
    \A t \in Threads :
        (thr[t].pc = "release" /\ thr[t].op = "cleanup_expired")
            => /\ thr[t].loc.todo = {}
               /\ DOMAIN sessions = thr[t].loc.passed
               /\ thr[t].loc.found \cap DOMAIN sessions = {}

C17_Step ==
    /\ \A sid \in DOMAIN sessions \ DOMAIN sessions' :
           /\ Idle_for(sid) > SESSION_TIMEOUT_SECONDS
           /\ \E t \in Threads : thr[t].pc = "delete" /\ sid \in thr[t].loc.found
    /\ \A t \in Threads :
           /\ (thr[t].pc \in {"scan", "delete"} /\ thr'[t] # thr[t])
                  => \A sid \in DOMAIN sessions' :
                         sid \in DOMAIN sessions /\ sessions'[sid] = sessions[sid]
           /\ thr[t].pc = "scan"
                  => /\ \A sid \in thr'[t].loc.found \ thr[t].loc.found :
                            Idle_for(sid) > SESSION_TIMEOUT_SECONDS
                     /\ \A sid \in thr'[t].loc.passed \ thr[t].loc.passed :
                            /\ sid \in DOMAIN sessions
                            /\ Idle_for(sid) <= SESSION_TIMEOUT_SECONDS

\* C17: a sweep that runs while callers mutate sessions removes a session only
\* if it is expired, judges every session in the store, removes each one it
\* found expired and keeps each one it found refreshed, and leaves the
\* sessions it keeps as they were.
C17_SweepUnderTraffic == []C17_Inv /\ [][C17_Step]_vars

\* a sweep has removed one session and kept another while a caller waits at
\* the lock with a mutation
C17_Witness ==
    \E t, u \in Threads :
        /\ thr[t].pc = "release"
        /\ thr[t].op = "cleanup_expired"
        /\ thr[t].loc.found # {}
        /\ thr[t].loc.passed # {}
        /\ Waiting(u)
        /\ thr[u].op \in {"get_or_create_session", "add_message"}

----------------------------------------------------------------------------
(* Classification, checked under SpecDetect *)

\* the weights of the categories of S, from category c on
RECURSIVE WeightOf(_, _)
WeightOf(S, c) ==
    IF c > Len(Categories) THEN 0
    ELSE (IF Categories[c] \in S THEN SCAM_PATTERNS[Categories[c]].weight ELSE 0)
         + WeightOf(S, c + 1)

\* the score of a request, in halves: the full weight of each category of
\* its message and half the weight of each category of the scammer's
\* earlier messages
ScoreOf(req) == 2 * WeightOf(req.categories, 1) + WeightOf(req.prior, 1)

\* the boosts of a request, in 240ths: 0.15, 0.1 and 0.2
BoostOf(req) ==
    (IF "upiIds" \in req.intel THEN 36 ELSE 0)
    + (IF "phoneNumbers" \in req.intel THEN 24 ELSE 0)
    + (IF "phishingLinks" \in req.intel THEN 48 ELSE 0)

\* min(min(score / 24, 1.0) + boosts, 1.0), in 240ths
ConfidenceOf(req) ==
    LET base == IF ScoreOf(req) >= 48 THEN 240 ELSE 5 * ScoreOf(req)
    IN  IF base + BoostOf(req) >= 240 THEN 240 ELSE base + BoostOf(req)

(* C18: for every combination of categories in the current message,       *)
(* categories in the scammer's earlier messages and kinds of intelligence  *)
(* present, detect_scam returns confidence = min(min(score / 24, 1.0) +    *)
(* boosts, 1.0), which lies between 0 and 1, and is_scam is true exactly   *)
(* when the score is at least 5 or the confidence at least 0.5.            *)
C18_ConfidenceAndVerdict ==
    verdict.detected =>
        /\ verdict.result.confidence = ConfidenceOf(request)
        /\ verdict.result.confidence \in 0..240
        /\ verdict.result.is_scam
             <=> (ScoreOf(request) >= 10 \/ verdict.result.confidence >= 120)

\* a message with one urgency trigger (score 2) and all three kinds of
\* intelligence was classified: a scam by its confidence alone
C18_Witness ==
    /\ verdict.detected
    /\ request.categories = {"urgency"}
    /\ request.prior = {}
    /\ request.intel = {"upiIds", "phoneNumbers", "phishingLinks"}
    /\ verdict.result.total_score2 = 4
    /\ verdict.result.confidence = 128
    /\ verdict.result.is_scam

\* the labels, in the order of their priority
Priority ==
    <<"lottery", "kyc", "financial_bait", "threat", "impersonation",
      "sensitive_request", "link_request", "urgency">>

Labels ==
    [lottery |-> "Lottery/Prize Scam",
     kyc |-> "KYC/Verification Scam",
     financial_bait |-> "Financial Fraud",
     threat |-> "Threat-based Scam",
     impersonation |-> "Impersonation Scam",
     sensitive_request |-> "Data Theft Scam",
     link_request |-> "Phishing Scam",
     urgency |-> "Urgency-based Scam"]

\* the label of the category of S that comes first in Priority
LabelOf(S) ==
    IF S = {} THEN "General Scam"
    ELSE LET first == CHOOSE k \in DOMAIN Priority :
                          /\ Priority[k] \in S
                          /\ \A j \in 1..(k - 1) : Priority[j] \notin S
         IN  Labels[Priority[first]]

(* C19: for every set of detected categories, in whatever order they are   *)
(* listed, get_scam_type returns the label of the category that comes      *)
(* first in lottery > kyc > financial_bait > threat > impersonation >      *)
(* sensitive_request > link_request > urgency > none; a message in which   *)
(* both lottery and urgency are detected gets the lottery label and is     *)
(* classified a scam.                                                      *)
C19_LabelByPriority ==
    /\ verdict.scam_type # NoValue => verdict.scam_type = LabelOf(request.categories)
    /\ (verdict.detected
          /\ {"lottery", "urgency"} \subseteq Range(verdict.result.detected_types))
         => /\ verdict.result.is_scam
            /\ verdict.scam_type \in {NoValue, "Lottery/Prize Scam"}

\* "You have won a lottery! Claim your prize now" was classified and
\* labelled
C19_Witness ==
    /\ Len(request.message) = 9
    /\ request.message[3].w = "won"
    /\ request.history = <<>>
    /\ verdict.detected
    /\ verdict.result.detected_types = <<"urgency", "lottery">>
    /\ verdict.result.is_scam
    /\ verdict.scam_type = "Lottery/Prize Scam"

(* C20: the score is the full weight of each category matched in the       *)
(* current message, once however many of its triggers match, plus half the *)
(* weight of each category matched in the scammer's earlier messages,      *)
(* once; detected_types lists exactly the categories matched in the        *)
(* current message, each once; what the user wrote earlier adds nothing.   *)
C20_ScoreOncePerCategory ==
    verdict.detected =>
        /\ verdict.result.total_score2 = ScoreOf(request)
        /\ Range(verdict.result.detected_types) = request.categories
        /\ Len(verdict.result.detected_types) = Cardinality(request.categories)

\* a message with three urgency triggers was classified after two scammer
\* messages that make up one sensitive_request trigger and hold an urgency
\* trigger, and a user message that holds a kyc trigger
C20_Witness ==
    /\ verdict.detected
    /\ Len(request.message) = 3
    /\ request.message[2].w = "now"
    /\ Len(request.history) = 3
    /\ request.history[2].sender = "user"
    /\ verdict.result.total_score2 = 10
    /\ verdict.result.detected_types = <<"urgency">>


----------------------------------------------------------------------------
(* The stored scam type, checked under SpecHandler *)

C14_Step ==
    \A sid \in SessionIds :
        (lastOp'.op = "honeypot_endpoint" /\ lastOp'.sid = sid)
            => IF verdict'.result.detected_types # <<>>
               THEN sessions'[sid].scam_type
                        = LabelOf(Range(verdict'.result.detected_types))
               ELSE (sid \in DOMAIN sessions /\ sessions[sid].scam_type # "")
                        => sessions'[sid].scam_type = sessions[sid].scam_type

(* C14: after a message is handled, the session's scam_type is the label   *)
(* resolved from that message's classification when it detected a          *)
(* category; a classification that detects no category leaves a stored     *)
(* scam_type as it was.  (So scam_type is always that of the most recent   *)
(* classification that detected a category.)                               *)
C14_ScamTypeLastNonEmpty == [][C14_Step]_vars


----------------------------------------------------------------------------
(* Payment ids and emails, checked under SpecExtract *)

(* C21: for a text whose only @ is in an email address of the form         *)
(* local-part@domain.com, extract_upi_ids returns the empty list: no       *)
(* payment id made of the address or of a part of it.                      *)
C21_EmailsAreNoPaymentIds ==
    (verdict.extracted /\ request.kind = "extract" /\ request.email)
        => verdict.intel.upiIds = <<>>

----------------------------------------------------------------------------
(* Reporting                                                               *)

(* C22. For any interleaving of the handlers, the forced report and the    *)
(* queued report tasks of a session, client.post returns a response to at  *)
(* most one task of the session.                                           *)
C22_AtMostOneDelivery ==
    \A sid \in SessionIds : tasks[sid].delivered <= 1

\* callback_sent of the session, False for a session not in the store
Sent(S, sid) == sid \in DOMAIN S /\ S[sid].callback_sent

\* the step is the end of a task of the session whose client.post raised
Raised(sid) == tasks'[sid].raised = tasks[sid].raised + 1

\* the step is a message of the session handled, or a forced report of it
HandledStep(sid) == lastOp'.op = "honeypot_endpoint" /\ lastOp'.sid = sid /\ tasks' # tasks
ForcedStep(sid) == tasks'[sid].forced = tasks[sid].forced + 1

C23_Step ==
    \A sid \in SessionIds :
        /\ (Sent(sessions', sid) /\ ~Sent(sessions, sid))
               => /\ lastOp'.op = "send_callback_to_guvi"
                  /\ lastOp'.sid = sid
                  /\ lastOp'.ret = "response"
                  /\ tasks'[sid].delivered = tasks[sid].delivered + 1
        /\ Raised(sid)
               => /\ sessions' = sessions
                  /\ heap' = heap
                  /\ ~Sent(sessions', sid)
        /\ (HandledStep(sid) /\ tasks[sid].raised > 0 /\ sid \in DOMAIN sessions
                /\ should_trigger_callback(sessions[sid]))
               => tasks'[sid].queued = tasks[sid].queued + 1
        /\ (ForcedStep(sid) /\ tasks[sid].raised > 0)
               => tasks'[sid].queued = tasks[sid].queued + 1

(* C23. callback_sent becomes True only in the step of a report task whose *)
(* client.post returned a response; the step of a task whose post raised   *)
(* changes nothing of the sessions and leaves callback_sent False; and     *)
(* after a raised delivery the next message handled on a session that was  *)
(* reportable, and every forced report, adds a report task again.          *)
C23_MarkedOnlyAfterResponse == [][C23_Step]_vars

====
